---- MODULE Spec2Model ----
(***************************************************************************)
(* A model of the ask-ai backend's retrieval core: the RAGService          *)
(* single-flight indexing guard, the SimpleRAGStrategy indexing and        *)
(* answering pipelines, and the PgVectorStore batch transaction.           *)
(*                                                                         *)
(* Every await of the TypeScript source is a suspension point: the action  *)
(* that issues the external call runs the synchronous code up to the       *)
(* await, and a "...Return" action runs the code from the await's          *)
(* resumption up to the next await.                                        *)
(***************************************************************************)
EXTENDS Integers, Sequences, FiniteSets, TLC

\* ---------------------------------------------------------------- bounds
MaxCalls == 2
MaxEntities == 2
MaxClock == 2
MaxKeys == 2
MaxCtx == 2
MaxChunkIds == 2
MaxOps == 3
MaxVecIds == 2
MaxTopK == 2
MaxBatchLen == 2
MaxTexts == 2
MaxWords == 4
MaxChunkSize == 3
MaxItems == 11
MaxVersionWords == 2
MaxPoolOps == 2
MaxClients == 2

\* ------------------------------------------------------ program constants
batchSize == 10
defaultTopK == 5
defaultChunkSize == 512
defaultChunkOverlap == 50

\* The calls made to the service (POST /index, the startup timer,
\* POST /index/entity), numbered in the order they are made.
Callers == 1..MaxCalls
Entities == 0..(MaxEntities - 1)
NullTime == 0

VARIABLES
    storeKind,            \* which IVectorStore the factory handed to the service
    indexingInProgress,   \* RAGService.indexingInProgress
    lastIndexTime,        \* RAGService.lastIndexTime (NullTime = null)
    now,                  \* the wall clock read by new Date()
    pc,                   \* per call: the await the call is suspended at
    startTime,            \* per call: the clock when the call was made
    fetched,              \* per call: entities.length of the fetched list
    batchAt,              \* per call: the loop variable i of indexAll
    items,                \* per call: one record per indexEntityInternal task
    vectors,              \* the entities whose chunk vectors the store holds
    runLog                \* per call: what the store held when the call was made,
                          \* and whether the run's clear() has completed

idxVars == <<storeKind, indexingInProgress, lastIndexTime, now, pc, startTime,
             fetched, batchAt, items, vectors, runLog>>

VARIABLES
    initialized,          \* PgVectorStore.initialized
    table,                \* committed rows of embeddings, as <<key, writing call>>
    spc,                  \* per storeBatch call: the await it is suspended at
    batch,                \* per call: the (entity_id, chunk_id) keys of its argument
    todo,                 \* per call: the rows the for loop has not inserted yet
    txOpen,               \* per call's client: a transaction block is open
    tx,                   \* per call's client: keys written in the open block
    cause                 \* per call: the statement whose failure made it reject

pgVars == <<initialized, table, spc, batch, todo, txOpen, tx, cause>>

VARIABLES
    areq,                 \* the RAGContext handed to strategy.answer
    aopts,                \* answerQuestion's arguments: query and options
    answerLog,            \* the strategy.answer calls made, in order
    apc,                  \* the await answer() is suspended at
    retrieveOutcome,      \* the state of the promise of this.retrieve(context)
    resolvedContext,      \* answer's resolvedContext
    embedLog,             \* the generateEmbeddings calls made, in order
    searchLog,            \* the vectorStore.search calls made, in order
    chatLog,              \* the llmService.chat calls made, in order
    aresult               \* what answer() settled with

ansVars == <<areq, aopts, answerLog, apc, retrieveOutcome, resolvedContext, embedLog, searchLog,
             chatLog, aresult>>

VARIABLES
    poolEnding,           \* pg Pool: end() has been called on the pool
    mop,                  \* per store method call: the method called
    mpc,                  \* per call: the await it is suspended at
    merr,                 \* per call: the error it rejected with
    mconn,                \* per call: it called pool.connect()
    mInitAtCall,          \* per call: this.initialized when the call was made
    mAfterClose           \* per call: a close() had resolved when it was made

lifeVars == <<poolEnding, mop, mpc, merr, mconn, mInitAtCall, mAfterClose>>

VARIABLES
    fkind,                \* the factory method called: create or createStrict
    ftype,                \* config.getVectorStoreType()
    fpc,                  \* the await the factory call is suspended at
    fresult               \* the store the factory returned, or the error

facVars == <<fkind, ftype, fpc, fresult>>

VARIABLES
    memVectors,           \* InMemoryVectorStore.vectors, in insertion order
    embeddings,           \* the rows of the embeddings table of one PgVectorStore
    lastCall              \* the last call made to both stores, and its outcomes

stVars == <<memVectors, embeddings, lastCall>>

VARIABLES
    ginputs,              \* generateEmbeddings: the inputs of the call
    gpc,                  \* where the call, then the indexing task, stands
    gresult,              \* what generateEmbeddings settled with
    gstored               \* the embeddingVectors the store took from the task

embVars == <<ginputs, gpc, gresult, gstored>>

VARIABLES
    document,             \* the words of the content handed to chunkDocument
    chunkConfig,          \* config.chunkSize and config.chunkOverlap
    docChunks,            \* the chunks chunkDocument returned
    docKey                \* the entityId and source chunkDocument was given

chunkVars == <<document, chunkConfig, docChunks, docKey>>

VARIABLES
    cachedConfig,         \* ConfigService.cachedConfig: chunkSize and chunkOverlap
    lpc,                  \* where the service, then a chunkDocument call, stands
    wordCount,            \* chunkDocument: words.length
    lindex                \* chunkDocument: currentIndex, the loop variable

cfgVars == <<cachedConfig, lpc, wordCount, lindex>>

VARIABLES
    bpc,                  \* indexAll: the await the run is suspended at
    bn,                   \* indexAll: entities.length
    bi,                   \* indexAll: the loop variable i
    bitems                \* per entity of the list: the state of its task

batVars == <<bpc, bn, bi, bitems>>

VARIABLES
    eversion,             \* the entity's current catalog text and TechDocs text
    echunks,              \* allChunks of the last indexEntity call
    estore,               \* the store's entries for the entity
    estored               \* whether the last indexEntity call stored its chunks

reVars == <<eversion, echunks, estore, estored>>

VARIABLES
    qop,                  \* per pool operation: method, await, client held, counts
    checkedOut,           \* the clients the pool has handed out and not got back
    inFlight              \* the queries sent and not settled: <<client, op, statement>>

poolVars == <<qop, checkedOut, inFlight>>

\* The state the models of the later sections add.
moreVars == <<lifeVars, facVars, stVars, embVars, chunkVars, cfgVars, batVars, reVars, poolVars>>

vars == <<idxVars, pgVars, ansVars, moreVars>>

\* The fields of PgVectorStore's batch model other than this.initialized
pgRest == <<table, spc, batch, todo, txOpen, tx, cause>>

\* What the store lifecycle steps leave alone.
othersLife == <<idxVars, pgRest, ansVars, facVars, stVars, embVars, chunkVars, cfgVars, batVars, reVars, poolVars>>

\* What the factory steps leave alone.
othersFac == <<idxVars, pgRest, ansVars, stVars, embVars, chunkVars, cfgVars, batVars, reVars, poolVars>>

\* ------------------------------------------------------------ data model
\* One indexEntityInternal task: the entity it indexes, the await it is
\* suspended at, and whether allChunks holds any chunk so far.  All chunks of
\* a task reach the store in one storeBatch call, so the store is tracked by
\* entity.
ItemTerminal == {"rejected", "skipped", "empty", "stored", "dropped"}
AllRunning == {"clear", "fetch", "batch", "count"}

NewItem(e) == [e |-> e, pc |-> "new", has |-> FALSE]

\* A task whose promise nobody awaits any more and whose result is dropped.
Dropped(item) == [e |-> item.e, pc |-> "dropped", has |-> FALSE]

\* The tasks of a run at the moment the run rejects: the tasks still in flight
\* go on running detached, the rejected ones are what made Promise.all reject.
Detach(its) ==
    [k \in DOMAIN its |->
        IF its[k].pc \in {"skipped", "empty", "stored", "new"}
        THEN Dropped(its[k]) ELSE its[k]]

\* In-memory store methods run to completion inside the call (their bodies hold
\* no await); the PostgreSQL store suspends on the pool and on every query.
StoreSuspends == storeKind = "postgresql"

\* ------------------------------------------------------- RAGService state
\* if (this.indexingInProgress) { warn; return; }
GuardRejectsMut == FALSE
GuardRejects == indexingInProgress

\* finally { this.indexingInProgress = false; }
FinallyInProgressMut == indexingInProgress
FinallyInProgress == FALSE

\* this.lastIndexTime = new Date(), reached only when strategy.indexAll resolved
LastIndexTimeOnSuccessMut == lastIndexTime
LastIndexTimeOnSuccess == now

\* the catch block rethrows and leaves lastIndexTime as it was
LastIndexTimeOnFailure == lastIndexTime

\* what the rejected call does to the flag: nothing
InProgressAfterRejectMut == FALSE
InProgressAfterReject == indexingInProgress

getIndexingStatus ==
    [inProgress |-> indexingInProgress,
     lastIndexTime |-> lastIndexTime,
     vectorCount |-> 0]

\* Call c is the next call to be made.
InOrder(c) == IF c = 1 THEN TRUE ELSE pc[c - 1] # "idle"

\* The call stays suspended at (or moves to) an await of the run.
Continue(c, at) ==
    /\ pc' = [pc EXCEPT ![c] = at]
    /\ UNCHANGED <<startTime, lastIndexTime, indexingInProgress>>

\* The run's tasks and loop state as its code leaves them at a suspension.
Keep(c, n, i, its) ==
    /\ fetched' = [fetched EXCEPT ![c] = n]
    /\ batchAt' = [batchAt EXCEPT ![c] = i]
    /\ items' = [items EXCEPT ![c] = its]

\* The run of call c resolved: strategy.indexAll returned, lastIndexTime is
\* stamped, finally clears the flag.
Complete(c) ==
    /\ pc' = [pc EXCEPT ![c] = "done"]
    /\ startTime' = [startTime EXCEPT ![c] = NullTime]
    /\ fetched' = [fetched EXCEPT ![c] = 0]
    /\ batchAt' = [batchAt EXCEPT ![c] = 0]
    /\ lastIndexTime' = LastIndexTimeOnSuccess
    /\ indexingInProgress' = FinallyInProgress

\* The run of call c rejected: catch logs and rethrows, finally clears the flag.
Fail(c) ==
    /\ pc' = [pc EXCEPT ![c] = "failed"]
    /\ startTime' = [startTime EXCEPT ![c] = NullTime]
    /\ fetched' = [fetched EXCEPT ![c] = 0]
    /\ batchAt' = [batchAt EXCEPT ![c] = 0]
    /\ lastIndexTime' = LastIndexTimeOnFailure
    /\ indexingInProgress' = FinallyInProgress

\* ------------------------------------------- SimpleRAGStrategy: indexing
\* The synchronous prefix of indexEntityInternal(entity), up to its first
\* await (hasDocumentation): getEntityRef and entity.metadata.name are read
\* before the try block, extractEntityContent and chunkDocument inside it.
SyncPrefixOutcomes(e) ==
    {[e |-> e, pc |-> "rejected", has |-> FALSE]}
        \cup {[e |-> e, pc |-> "skipped", has |-> FALSE]}
        \cup {[e |-> e, pc |-> "hasDocs", has |-> h] : h \in BOOLEAN}

\* if (allChunks.length === 0) return; else generateEmbeddings(chunkTexts)
AfterDocs(item) ==
    IF ~item.has
    THEN [item EXCEPT !.pc = "empty"]
    ELSE [item EXCEPT !.pc = "embed"]

\* for (i = 0; i < entities.length; i += batchSize): the indices of the batch
\* entities.slice(i, i + batchSize), 1-based
BatchIdx(i, n) == {k \in 1..n : i < k /\ k <= i + batchSize}

\* batch.map(entity => this.indexEntityInternal(entity)) runs every task's
\* synchronous prefix; Promise.all rejects as soon as one task has rejected.
StartBatch(c, i, n, its) ==
    \E out \in [BatchIdx(i, n) -> UNION {SyncPrefixOutcomes(e) : e \in Entities}] :
        LET started == [k \in 1..n |-> IF k \in BatchIdx(i, n) THEN out[k] ELSE its[k]]
        IN  /\ \A k \in BatchIdx(i, n) : out[k] \in SyncPrefixOutcomes(its[k].e)
            /\ IF \E k \in BatchIdx(i, n) : out[k].pc = "rejected"
               THEN /\ Fail(c)
                    /\ items' = [items EXCEPT ![c] = Detach(started)]
               ELSE /\ Continue(c, "batch")
                    /\ Keep(c, n, i, started)

\* const vectorCount = await this.vectorStore.count(); then indexAll returns
CallCount(c, n, i, its) ==
    IF StoreSuspends
    THEN /\ Continue(c, "count")
         /\ Keep(c, n, i, its)
    ELSE /\ Complete(c)
         /\ items' = [items EXCEPT ![c] = <<>>]

\* The loop of indexAll from index i on, over the n fetched entities.
LoopFrom(c, i, n, its) ==
    IF i < n
    THEN StartBatch(c, i, n, its)
    ELSE CallCount(c, n, i, its)

\* const entities = await fetchAllEntities(): the list resolved, then the loop
AfterFetch(c, n) == LoopFrom(c, 0, n, [k \in 1..n |-> NewItem(k - 1)])

\* await this.vectorStore.clear(): this.vectors.clear() in memory, DELETE FROM
\* embeddings in PostgreSQL; what the store holds afterwards
ClearedMut == vectors
Cleared == {}

\* RAGService.indexAllDocuments(), from the call to its first suspension.
\* The calls are numbered in the order they are made.
IndexAllDocuments(c) ==
    /\ pc[c] = "idle"
    /\ InOrder(c)
    /\ IF GuardRejects
       THEN /\ pc' = [pc EXCEPT ![c] = "skipped"]
            /\ indexingInProgress' = InProgressAfterReject
            /\ UNCHANGED <<storeKind, runLog, lastIndexTime, now, startTime, fetched,
                           batchAt, items, vectors>>
       ELSE /\ indexingInProgress' = TRUE
            /\ startTime' = [startTime EXCEPT ![c] = now]
            /\ runLog' = [runLog EXCEPT ![c] = [held |-> vectors,
                                                 cleared |-> ~StoreSuspends]]
            /\ IF StoreSuspends
               THEN /\ pc' = [pc EXCEPT ![c] = "clear"]
                    /\ UNCHANGED vectors
               ELSE /\ pc' = [pc EXCEPT ![c] = "fetch"]
                    /\ vectors' = Cleared
            /\ UNCHANGED <<storeKind, lastIndexTime, now, fetched, batchAt, items>>
    /\ UNCHANGED <<pgVars, ansVars, moreVars>>

\* await this.vectorStore.clear() settles (PostgreSQL store).
ClearReturn(c) ==
    /\ pc[c] = "clear"
    /\ \/ /\ vectors' = Cleared
          /\ runLog' = [runLog EXCEPT ![c].cleared = TRUE]
          /\ Continue(c, "fetch")
          /\ UNCHANGED <<fetched, batchAt>>
       \/ /\ Fail(c)
          /\ UNCHANGED <<vectors, runLog>>
    /\ UNCHANGED <<storeKind, now, items>>
    /\ UNCHANGED <<pgVars, ansVars, moreVars>>

\* await this.catalogCollector.fetchAllEntities() settles.
FetchReturn(c) ==
    /\ pc[c] = "fetch"
    /\ \/ \E n \in 0..MaxEntities : AfterFetch(c, n)
       \/ /\ Fail(c)
          /\ UNCHANGED items
    /\ UNCHANGED <<storeKind, runLog, now, vectors>>
    /\ UNCHANGED <<pgVars, ansVars, moreVars>>

\* await Promise.all(batch...) resolves: every task of the batch has settled.
BatchJoin(c) ==
    /\ pc[c] = "batch"
    /\ \A k \in BatchIdx(batchAt[c], fetched[c]) : items[c][k].pc \in ItemTerminal
    /\ LoopFrom(c, batchAt[c] + batchSize, fetched[c], items[c])
    /\ UNCHANGED <<storeKind, runLog, now, vectors>>
    /\ UNCHANGED <<pgVars, ansVars, moreVars>>

\* await this.vectorStore.count() settles (PostgreSQL store).
CountReturn(c) ==
    /\ pc[c] = "count"
    /\ Complete(c) \/ Fail(c)
    /\ items' = [items EXCEPT ![c] = <<>>]
    /\ UNCHANGED <<storeKind, runLog, now, vectors>>
    /\ UNCHANGED <<pgVars, ansVars, moreVars>>

\* A task's next state; the result of a task that settles after its run has
\* rejected is dropped.
Awaited(c) == pc[c] \in {"batch", "eitem"}
Settled(item) ==
    IF item.pc \in {"skipped", "empty"} THEN [item EXCEPT !.has = FALSE] ELSE item
SetItem(c, k, item) ==
    items' = [items EXCEPT ![c][k] =
                 IF item.pc \in ItemTerminal /\ ~Awaited(c)
                 THEN Dropped(item) ELSE Settled(item)]

\* await this.techDocsCollector.hasDocumentation(entityRef) resolves
\* (TechDocsCollector catches every error and answers false).
HasDocsReturn(c, k) ==
    /\ k \in DOMAIN items[c]
    /\ items[c][k].pc = "hasDocs"
    /\ \/ SetItem(c, k, [items[c][k] EXCEPT !.pc = "fetchDocs"])
       \/ SetItem(c, k, AfterDocs(items[c][k]))
    /\ UNCHANGED <<storeKind, runLog, indexingInProgress, lastIndexTime, now, pc,
                   startTime, fetched, batchAt, vectors>>
    /\ UNCHANGED <<pgVars, ansVars, moreVars>>

\* await this.techDocsCollector.fetchDocumentation(entityRef) resolves with
\* null or a text; a text is chunked (chunkDocument may throw, caught).
FetchDocsReturn(c, k) ==
    /\ k \in DOMAIN items[c]
    /\ items[c][k].pc = "fetchDocs"
    /\ \/ \E h \in BOOLEAN :
            SetItem(c, k, AfterDocs([items[c][k] EXCEPT !.has = items[c][k].has \/ h]))
       \/ SetItem(c, k, [items[c][k] EXCEPT !.pc = "skipped"])
    /\ UNCHANGED <<storeKind, runLog, indexingInProgress, lastIndexTime, now, pc,
                   startTime, fetched, batchAt, vectors>>
    /\ UNCHANGED <<pgVars, ansVars, moreVars>>

\* await this.llmService.generateEmbeddings(chunkTexts) settles; on success
\* the vectors are built and storeBatch is called.
EmbedReturn(c, k) ==
    /\ k \in DOMAIN items[c]
    /\ items[c][k].pc = "embed"
    /\ \/ /\ SetItem(c, k, [items[c][k] EXCEPT !.pc = "skipped"])
          /\ UNCHANGED vectors
       \/ IF StoreSuspends
          THEN /\ SetItem(c, k, [items[c][k] EXCEPT !.pc = "store"])
               /\ UNCHANGED vectors
          ELSE /\ SetItem(c, k, [items[c][k] EXCEPT !.pc = "stored"])
               /\ vectors' = vectors \cup {items[c][k].e}
    /\ UNCHANGED <<storeKind, runLog, indexingInProgress, lastIndexTime, now, pc,
                   startTime, fetched, batchAt>>
    /\ UNCHANGED <<pgVars, ansVars, moreVars>>

\* await this.vectorStore.storeBatch(embeddingVectors) settles (PostgreSQL).
StoreReturn(c, k) ==
    /\ k \in DOMAIN items[c]
    /\ items[c][k].pc = "store"
    /\ \/ /\ SetItem(c, k, [items[c][k] EXCEPT !.pc = "stored"])
          /\ vectors' = vectors \cup {items[c][k].e}
       \/ /\ SetItem(c, k, [items[c][k] EXCEPT !.pc = "skipped"])
          /\ UNCHANGED vectors
    /\ UNCHANGED <<storeKind, runLog, indexingInProgress, lastIndexTime, now, pc,
                   startTime, fetched, batchAt>>
    /\ UNCHANGED <<pgVars, ansVars, moreVars>>

\* RAGService.indexEntity(entityRef) -> strategy.indexEntity(entityRef), up to
\* await fetchEntity(entityRef).
IndexEntity(c) ==
    /\ pc[c] = "idle"
    /\ InOrder(c)
    /\ pc' = [pc EXCEPT ![c] = "efetch"]
    /\ UNCHANGED <<storeKind, runLog, indexingInProgress, lastIndexTime, now, startTime, fetched,
                   batchAt, items, vectors>>
    /\ UNCHANGED <<pgVars, ansVars, moreVars>>

\* await fetchEntity settles; on success indexEntityInternal(entity) is called
\* and awaited, its synchronous prefix runs.
EntityFetchReturn(c) ==
    /\ pc[c] = "efetch"
    /\ \/ /\ pc' = [pc EXCEPT ![c] = "efailed"]
          /\ UNCHANGED items
       \/ \E e \in Entities : \E out \in SyncPrefixOutcomes(e) :
            /\ items' = [items EXCEPT ![c] = <<out>>]
            /\ pc' = [pc EXCEPT ![c] =
                         IF out.pc = "rejected" THEN "efailed" ELSE "eitem"]
    /\ UNCHANGED <<storeKind, runLog, indexingInProgress, lastIndexTime, now, startTime,
                   fetched, batchAt, vectors>>
    /\ UNCHANGED <<pgVars, ansVars, moreVars>>

\* await this.indexEntityInternal(entity) resolves.
EntityJoin(c) ==
    /\ pc[c] = "eitem"
    /\ items[c][1].pc \in ItemTerminal
    /\ pc' = [pc EXCEPT ![c] = "edone"]
    /\ UNCHANGED <<storeKind, runLog, indexingInProgress, lastIndexTime, now, startTime,
                   fetched, batchAt, items, vectors>>
    /\ UNCHANGED <<pgVars, ansVars, moreVars>>

Tick ==
    /\ now < MaxClock
    /\ now' = now + 1
    /\ UNCHANGED <<storeKind, runLog, indexingInProgress, lastIndexTime, pc, startTime,
                   fetched, batchAt, items, vectors>>
    /\ UNCHANGED <<pgVars, ansVars, moreVars>>

InitIndex ==
    /\ storeKind \in {"memory", "postgresql"}
    /\ indexingInProgress = FALSE
    /\ lastIndexTime = NullTime
    /\ now = 1
    /\ pc = [c \in Callers |-> "idle"]
    /\ startTime = [c \in Callers |-> NullTime]
    /\ fetched = [c \in Callers |-> 0]
    /\ batchAt = [c \in Callers |-> 0]
    /\ items = [c \in Callers |-> <<>>]
    /\ vectors = {}
    /\ runLog = [c \in Callers |-> [held |-> {}, cleared |-> FALSE]]

RunStep(c) ==
    \/ ClearReturn(c)
    \/ FetchReturn(c)
    \/ BatchJoin(c)
    \/ CountReturn(c)

ItemStep(c, k) ==
    \/ HasDocsReturn(c, k)
    \/ FetchDocsReturn(c, k)
    \/ EmbedReturn(c, k)
    \/ StoreReturn(c, k)

NextIndex ==
    \/ \E c \in Callers : IndexAllDocuments(c)
    \/ \E c \in Callers : RunStep(c)
    \/ \E c \in Callers : \E k \in 1..MaxEntities : ItemStep(c, k)

NextIndexTimed ==
    \/ NextIndex
    \/ Tick

NextEntity ==
    \/ \E c \in Callers : IndexEntity(c)
    \/ \E c \in Callers : EntityFetchReturn(c)
    \/ \E c \in Callers : ItemStep(c, 1)
    \/ \E c \in Callers : EntityJoin(c)

\* ------------------------------------------------ PgVectorStore.storeBatch
\* The rows of a batch are identified by their (entity_id, chunk_id) key, the
\* conflict target of the upsert; a batch holds each key once and the for loop
\* takes them in order.  The committed table remembers, per key, the call
\* whose row is visible to other clients.
Keys == 1..MaxKeys

\* SELECT COUNT(*) FROM embeddings, on a client of its own
count == Cardinality(table)

\* INSERT ... ON CONFLICT (entity_id, chunk_id) DO UPDATE of the rows ks by b
Upsert(t, ks, b) ==
    {r \in t : r[1] \notin ks} \cup {<<k, b>> : k \in ks}

\* await client.query('BEGIN'): the statement that opens the block
FirstStatementMut == "SELECT 1"
FirstStatement == "BEGIN"

\* for (const embedding of embeddings): the row the loop is at
NextRow(b) == CHOOSE k \in todo[b] : \A j \in todo[b] : k <= j

\* Call b is the next storeBatch call to be made.
PgInOrder(b) == IF b = 1 THEN TRUE ELSE spc[b - 1] # "idle"

\* The call settles; its argument and loop state go out of scope.
PgSettle(b, how, why) ==
    /\ spc' = [spc EXCEPT ![b] = how]
    /\ cause' = [cause EXCEPT ![b] = why]
    /\ batch' = [batch EXCEPT ![b] = {}]
    /\ todo' = [todo EXCEPT ![b] = {}]

\* catch (error) { await client.query('ROLLBACK'); ... }
PgCatch(b, why) ==
    /\ spc' = [spc EXCEPT ![b] = "rollback"]
    /\ cause' = [cause EXCEPT ![b] = why]
    /\ batch' = [batch EXCEPT ![b] = {}]
    /\ todo' = [todo EXCEPT ![b] = {}]

\* PgVectorStore.initialize() resolves: connection, pgvector and schema verified.
Initialize ==
    /\ ~initialized
    /\ initialized' = TRUE
    /\ UNCHANGED <<table, spc, batch, todo, txOpen, tx, cause>>
    /\ UNCHANGED <<idxVars, ansVars, moreVars>>

\* storeBatch(embeddings), from the call to its first suspension:
\* ensureInitialized throws, an empty batch returns, else pool.connect().
StoreBatch(b) ==
    /\ spc[b] = "idle"
    /\ PgInOrder(b)
    /\ \E ks \in SUBSET Keys :
        IF ~initialized
        THEN PgSettle(b, "rejected", "init")
        ELSE IF ks = {}
             THEN PgSettle(b, "resolved", "none")
             ELSE /\ spc' = [spc EXCEPT ![b] = "connect"]
                  /\ batch' = [batch EXCEPT ![b] = ks]
                  /\ todo' = [todo EXCEPT ![b] = ks]
                  /\ UNCHANGED cause
    /\ UNCHANGED <<initialized, table, txOpen, tx>>
    /\ UNCHANGED <<idxVars, ansVars, moreVars>>

\* await this.pool.connect() settles; it is outside the try block, so its
\* failure rejects the call with no ROLLBACK and no release.
ConnectReturn(b) ==
    /\ spc[b] = "connect"
    /\ \/ /\ spc' = [spc EXCEPT ![b] = "begin"]
          /\ UNCHANGED <<batch, todo, cause>>
       \/ PgSettle(b, "rejected", "connect")
    /\ UNCHANGED <<initialized, table, txOpen, tx>>
    /\ UNCHANGED <<idxVars, ansVars, moreVars>>

\* await client.query('BEGIN') settles.
BeginReturn(b) ==
    /\ spc[b] = "begin"
    /\ \/ /\ txOpen' = [txOpen EXCEPT ![b] = (FirstStatement = "BEGIN")]
          /\ spc' = [spc EXCEPT ![b] = "insert"]
          /\ UNCHANGED <<batch, todo, cause>>
       \/ /\ PgCatch(b, "begin")
          /\ UNCHANGED txOpen
    /\ UNCHANGED <<initialized, table, tx>>
    /\ UNCHANGED <<idxVars, ansVars, moreVars>>

\* await client.query(query, values) settles for the row the loop is at.  Inside
\* a transaction block the row is written to the block; on a client with no
\* open block the statement commits by itself.  After the last row the loop
\* ends and COMMIT is sent.
InsertReturn(b) ==
    /\ spc[b] = "insert"
    /\ \/ /\ IF txOpen[b]
             THEN /\ tx' = [tx EXCEPT ![b] = tx[b] \cup {NextRow(b)}]
                  /\ UNCHANGED table
             ELSE /\ table' = Upsert(table, {NextRow(b)}, b)
                  /\ UNCHANGED tx
          /\ todo' = [todo EXCEPT ![b] = todo[b] \ {NextRow(b)}]
          /\ spc' = [spc EXCEPT ![b] =
                        IF todo[b] = {NextRow(b)} THEN "commit" ELSE "insert"]
          /\ UNCHANGED <<batch, cause>>
       \/ /\ PgCatch(b, "insert")
          /\ UNCHANGED <<table, tx>>
    /\ UNCHANGED <<initialized, txOpen>>
    /\ UNCHANGED <<idxVars, ansVars, moreVars>>

\* await client.query('COMMIT') settles.  When it resolves the block's rows
\* are visible; when it rejects the server may or may not have committed.
CommitReturn(b) ==
    /\ spc[b] = "commit"
    /\ \/ /\ table' = Upsert(table, tx[b], b)
          /\ PgSettle(b, "resolved", "none")
       \/ /\ table' \in {table, Upsert(table, tx[b], b)}
          /\ PgCatch(b, "commit")
    /\ tx' = [tx EXCEPT ![b] = {}]
    /\ txOpen' = [txOpen EXCEPT ![b] = FALSE]
    /\ UNCHANGED initialized
    /\ UNCHANGED <<idxVars, ansVars, moreVars>>

\* await client.query('ROLLBACK') settles: the block's rows are discarded (by
\* the statement, or by the server when the connection is lost), the error is
\* thrown and finally releases the client.
RollbackReturn(b) ==
    /\ spc[b] = "rollback"
    /\ tx' = [tx EXCEPT ![b] = {}]
    /\ txOpen' = [txOpen EXCEPT ![b] = FALSE]
    /\ spc' = [spc EXCEPT ![b] = "rejected"]
    /\ UNCHANGED <<initialized, table, batch, todo, cause>>
    /\ UNCHANGED <<idxVars, ansVars, moreVars>>

InitPg ==
    /\ initialized = FALSE
    /\ table = {}
    /\ spc = [b \in Callers |-> "idle"]
    /\ batch = [b \in Callers |-> {}]
    /\ todo = [b \in Callers |-> {}]
    /\ txOpen = [b \in Callers |-> FALSE]
    /\ tx = [b \in Callers |-> {}]
    /\ cause = [b \in Callers |-> "none"]

NextPg ==
    \/ Initialize
    \/ \E b \in Callers : StoreBatch(b)
    \/ \E b \in Callers : ConnectReturn(b)
    \/ \E b \in Callers : BeginReturn(b)
    \/ \E b \in Callers : InsertReturn(b)
    \/ \E b \in Callers : CommitReturn(b)
    \/ \E b \in Callers : RollbackReturn(b)

\* ------------------------------------------ SimpleRAGStrategy: answering
Chunks == 1..MaxChunkIds
Queries == {"q1", "q2"}
Replies == {"r1", "r2"}
EntityIds == {"component:default/a"}
ModelNames == {"", "mistral"}

\* An optional value: {} is undefined, {x} is x.
Some(x) == {x}
Get(opt) == CHOOSE x \in opt : TRUE

\* a ?? b
Coalesce(opt, d) == IF opt = {} THEN d ELSE Get(opt)

\* ConfigService: askAi.defaultModel || 'llama3.2'
defaultModel == "llama3.2"

\* context.model || defaultModel: undefined and '' both take the default
ResolveModel(opt) ==
    IF opt = {} \/ opt = {""} THEN defaultModel ELSE Get(opt)

\* context.context ?? (await this.retrieve(context)): retrieval runs only when
\* no context was supplied; a supplied empty list is a context.
NeedsRetrievalMut(ctx) == ctx = {} \/ ctx = {<<>>}
NeedsRetrieval(ctx) == ctx = {}

\* buildContextString: one numbered part per chunk, in order
buildContextString(chunks) ==
    IF Len(chunks) = 0
    THEN <<"No relevant context found.">>
    ELSE [i \in 1..Len(chunks) |-> <<i, chunks[i]>>]

\* the messages of the grounded call: [system, user(query)]
GroundedMessages(q, chunks) ==
    <<[role |-> "system", content |-> buildContextString(chunks)],
      [role |-> "user", content |-> <<q>>]>>

\* the messages of the fallback call: [{ role: 'user', content: context.query }]
FallbackMessagesMut(q) == GroundedMessages(q, <<>>)
FallbackMessages(q) == <<[role |-> "user", content |-> <<q>>]>>

\* what await this.retrieve(context) does in answer() when retrieve rejects:
\* no try/catch surrounds it, so answer() rejects with the same error
AwaitRejectedRetrieveMut(err) == [threw |-> FALSE, error |-> "none"]
AwaitRejectedRetrieve(err) == [threw |-> TRUE, error |-> err]

\* results.slice(0, topK) mapped to their chunks
SearchResults(topK) ==
    UNION {[1..n -> Chunks] : n \in 0..(IF topK < MaxCtx THEN topK ELSE MaxCtx)}

Pending == [kind |-> "pending", answer |-> "", sources |-> <<>>, model |-> "",
            error |-> "none"]

\* answer(), from resolvedContext on: the chat call for the empty or the
\* non-empty context.
ChatWith(req, chunks) ==
    /\ resolvedContext' = chunks
    /\ chatLog' = Append(chatLog,
            [messages |-> IF Len(chunks) = 0
                          THEN FallbackMessages(req.query)
                          ELSE GroundedMessages(req.query, chunks),
             model |-> ResolveModel(req.model),
             reply |-> ""])
    /\ apc' = "chat"
    /\ UNCHANGED aresult

\* answer() rejects with err.
Throw(err) ==
    /\ apc' = "threw"
    /\ aresult' = [Pending EXCEPT !.kind = "threw", !.error = err]

\* retrieve() rejected with err while answer() awaits it.
RetrieveRejected(req, err) ==
    IF AwaitRejectedRetrieve(err).threw
    THEN /\ Throw(AwaitRejectedRetrieve(err).error)
         /\ UNCHANGED <<resolvedContext, chatLog>>
    ELSE ChatWith(req, <<>>)

\* const topK = options?.topK ?? this.configService.getConfig().defaultTopK
QuestionTopKMut(optTopK) == IF optTopK \in {{}, {0}} THEN defaultTopK ELSE Get(optTopK)
QuestionTopK(optTopK) == Coalesce(optTopK, defaultTopK)

\* RAGService.answerQuestion(query, options) -> strategy.answer(context), up to
\* the first await: the retrieval's embedding call, or the chat call when a
\* context was supplied.
AnswerQuestion ==
    /\ apc = "idle"
    /\ \E q \in Queries :
       \E optTopK \in {{}} \cup {Some(k) : k \in 0..MaxCtx} :
       \E optEntity \in {{}} \cup {Some(e) : e \in EntityIds} :
       \E optModel \in {{}} \cup {Some(m) : m \in ModelNames} :
       \E optCtx \in {{}} \cup {Some(c) : c \in UNION {[1..n -> Chunks] : n \in 0..MaxCtx}} :
        LET req == [query |-> q,
                    topK |-> Some(QuestionTopK(optTopK)),
                    entityId |-> optEntity,
                    model |-> optModel,
                    context |-> optCtx]
        IN  /\ areq' = req
            /\ aopts' = [query |-> q, topK |-> optTopK, entityId |-> optEntity,
                         model |-> optModel, context |-> optCtx]
            /\ answerLog' = Append(answerLog, req)
            /\ IF NeedsRetrieval(req.context)
               THEN /\ embedLog' = Append(embedLog, <<req.query>>)
                    /\ apc' = "embed"
                    /\ UNCHANGED <<resolvedContext, chatLog, aresult>>
               ELSE /\ ChatWith(req, Get(req.context))
                    /\ UNCHANGED embedLog
    /\ UNCHANGED <<retrieveOutcome, searchLog>>
    /\ UNCHANGED <<idxVars, pgVars, moreVars>>

\* retrieve: await this.llmService.generateEmbeddings([context.query]) settles;
\* on success the store is searched with context.topK ?? defaultTopK.
RetrieveEmbedReturn ==
    /\ apc = "embed"
    /\ \/ /\ searchLog' = Append(searchLog,
                    [topK |-> Coalesce(areq.topK, defaultTopK),
                     entityId |-> areq.entityId])
          /\ apc' = "search"
          /\ UNCHANGED <<retrieveOutcome, resolvedContext, chatLog, aresult>>
       \/ /\ retrieveOutcome' = "rejected"
          /\ RetrieveRejected(areq, "embedding")
          /\ UNCHANGED searchLog
    /\ UNCHANGED <<areq, aopts, answerLog, embedLog>>
    /\ UNCHANGED <<idxVars, pgVars, moreVars>>

\* retrieve: await this.vectorStore.search(...) settles; on success retrieve
\* resolves with the chunks and answer() goes on with them.
RetrieveSearchReturn ==
    /\ apc = "search"
    /\ \/ /\ retrieveOutcome' = "resolved"
          /\ \E found \in SearchResults(searchLog[Len(searchLog)].topK) :
                ChatWith(areq, found)
       \/ /\ retrieveOutcome' = "rejected"
          /\ RetrieveRejected(areq, "search")
    /\ UNCHANGED <<areq, aopts, answerLog, embedLog, searchLog>>
    /\ UNCHANGED <<idxVars, pgVars, moreVars>>

\* await this.llmService.chat(messages, model) settles; on success answer()
\* returns { answer, sources, model }.
AnswerChatReturn ==
    /\ apc = "chat"
    /\ \/ \E reply \in Replies :
            /\ chatLog' = [chatLog EXCEPT ![Len(chatLog)].reply = reply]
            /\ apc' = "returned"
            /\ aresult' = [kind |-> "returned",
                           answer |-> reply,
                           sources |-> IF Len(resolvedContext) = 0
                                       THEN <<>> ELSE resolvedContext,
                           model |-> chatLog[Len(chatLog)].model,
                           error |-> "none"]
       \/ /\ Throw("chat")
          /\ UNCHANGED chatLog
    /\ UNCHANGED <<areq, aopts, answerLog, retrieveOutcome, resolvedContext, embedLog, searchLog>>
    /\ UNCHANGED <<idxVars, pgVars, moreVars>>

InitAnswer ==
    /\ areq = [query |-> "", topK |-> {}, entityId |-> {}, model |-> {},
               context |-> {}]
    /\ aopts = areq
    /\ answerLog = <<>>
    /\ apc = "idle"
    /\ retrieveOutcome = "none"
    /\ resolvedContext = <<>>
    /\ embedLog = <<>>
    /\ searchLog = <<>>
    /\ chatLog = <<>>
    /\ aresult = Pending

NextAnswer ==
    \/ AnswerQuestion
    \/ RetrieveEmbedReturn
    \/ RetrieveSearchReturn
    \/ AnswerChatReturn

\* --------------------------------------------- PgVectorStore: lifecycle
\* The calls made to one PgVectorStore, numbered in the order they are made.
Ops == 1..MaxOps

\* The methods that start with this.ensureInitialized()
GuardedMethodsMut == {"store", "storeBatch", "clear", "count", "getStats"}
GuardedMethods == {"store", "storeBatch", "search", "clear", "count", "getStats"}

PublicMethods ==
    {"initialize", "store", "storeBatch", "search", "clear", "count", "getStats",
     "healthCheck", "close"}

\* if (this.initialized) { debug('already initialized'); return; }
AlreadyInitializedMut == FALSE
AlreadyInitialized == initialized

\* initialize(): testConnection, verifyPgVector, verifySchema, each a
\* pool.connect() followed by one query
InitStages ==
    <<"testConnection.connect", "testConnection.query",
      "verifyPgVector.connect", "verifyPgVector.query",
      "verifySchema.connect", "verifySchema.query">>

StageIndex(at) == CHOOSE i \in 1..Len(InitStages) : InitStages[i] = at

ConnectAwaits == {"connect", "testConnection.connect", "verifyPgVector.connect",
                  "verifySchema.connect"}
QueryAwaits == {"query", "testConnection.query", "verifyPgVector.query",
                "verifySchema.query"}

LifeInOrder(c) == IF c = 1 THEN TRUE ELSE mpc[c - 1] # "idle"

\* The call moves to its next await.
LifeAt(c, at) ==
    /\ mpc' = [mpc EXCEPT ![c] = at]
    /\ UNCHANGED merr

\* The call settles.
LifeSettle(c, how, err) ==
    /\ mpc' = [mpc EXCEPT ![c] = how]
    /\ merr' = [merr EXCEPT ![c] = err]

\* Method m of the store is called as call c: the code up to its first await.
CallMethod(c, m) ==
    /\ mpc[c] = "idle"
    /\ LifeInOrder(c)
    /\ mop' = [mop EXCEPT ![c] = m]
    /\ mInitAtCall' = [mInitAtCall EXCEPT ![c] = initialized]
    /\ mAfterClose' = [mAfterClose EXCEPT ![c] =
            \E d \in Ops : mop[d] = "close" /\ mpc[d] = "resolved"]
    /\ IF m = "initialize"
       THEN IF AlreadyInitialized
            THEN /\ LifeSettle(c, "resolved", "none")
                 /\ UNCHANGED <<mconn, poolEnding>>
            ELSE /\ LifeAt(c, "testConnection.connect")
                 /\ mconn' = [mconn EXCEPT ![c] = TRUE]
                 /\ UNCHANGED poolEnding
       ELSE IF m = "close"
            THEN /\ LifeAt(c, "end")
                 /\ poolEnding' = TRUE
                 /\ UNCHANGED mconn
            ELSE IF m \in GuardedMethods /\ ~initialized
                 THEN /\ LifeSettle(c, "rejected", "notInitialized")
                      /\ UNCHANGED <<mconn, poolEnding>>
                 ELSE /\ LifeAt(c, "connect")
                      /\ mconn' = [mconn EXCEPT ![c] = TRUE]
                      /\ UNCHANGED poolEnding
    /\ UNCHANGED initialized
    /\ UNCHANGED <<idxVars, pgRest, ansVars, stVars, embVars, chunkVars, cfgVars, batVars, reVars, poolVars>>

\* A public method of the store is called.
MethodCall(c) ==
    /\ \E m \in PublicMethods : CallMethod(c, m)
    /\ UNCHANGED facVars

\* What a failed await does to the call: initialize wraps the error and
\* rejects, healthCheck catches it and answers false, the others rethrow.
MethodFails(c, err) ==
    IF mop[c] = "initialize"
    THEN LifeSettle(c, "rejected", "initFailed")
    ELSE IF mop[c] = "healthCheck"
         THEN LifeSettle(c, "resolved", "unhealthy")
         ELSE LifeSettle(c, "rejected", err)

\* await this.pool.connect() settles; a pool that is ending hands out no
\* client.
PoolConnectReturn(c) ==
    /\ mpc[c] \in ConnectAwaits
    /\ \/ /\ ~poolEnding
          /\ LifeAt(c, IF mop[c] = "initialize"
                       THEN InitStages[StageIndex(mpc[c]) + 1] ELSE "query")
       \/ MethodFails(c, "pool")
    /\ UNCHANGED <<initialized, poolEnding, mop, mconn, mInitAtCall, mAfterClose>>
    /\ UNCHANGED othersLife

\* await client.query(...) settles; the last query of initialize sets
\* this.initialized = true.  A verification query that answers "not installed"
\* or "no such table" throws like a failed one.
ClientQueryReturn(c) ==
    /\ mpc[c] \in QueryAwaits
    /\ \/ IF mop[c] = "initialize"
          THEN IF mpc[c] = "verifySchema.query"
               THEN /\ LifeSettle(c, "resolved", "none")
                    /\ initialized' = TRUE
               ELSE /\ LifeAt(c, InitStages[StageIndex(mpc[c]) + 1])
                    /\ UNCHANGED initialized
          ELSE /\ LifeSettle(c, "resolved", "none")
               /\ UNCHANGED initialized
       \/ /\ MethodFails(c, "db")
          /\ UNCHANGED initialized
    /\ UNCHANGED <<poolEnding, mop, mconn, mInitAtCall, mAfterClose>>
    /\ UNCHANGED othersLife

\* close: await this.pool.end() settles.
PoolEndReturn(c) ==
    /\ mpc[c] = "end"
    /\ \/ LifeSettle(c, "resolved", "none")
       \/ LifeSettle(c, "rejected", "pool")
    /\ UNCHANGED <<initialized, poolEnding, mop, mconn, mInitAtCall, mAfterClose>>
    /\ UNCHANGED othersLife

InitLife ==
    /\ poolEnding = FALSE
    /\ mop = [c \in Ops |-> "none"]
    /\ mpc = [c \in Ops |-> "idle"]
    /\ merr = [c \in Ops |-> "none"]
    /\ mconn = [c \in Ops |-> FALSE]
    /\ mInitAtCall = [c \in Ops |-> FALSE]
    /\ mAfterClose = [c \in Ops |-> FALSE]

NextLife ==
    \/ \E c \in Ops : MethodCall(c)
    \/ \E c \in Ops : PoolConnectReturn(c)
    \/ \E c \in Ops : ClientQueryReturn(c)
    \/ \E c \in Ops : PoolEndReturn(c)

\* ---------------------------------------------------- VectorStoreFactory
\* The factory builds a new store; call 1 of the store is the factory's own
\* store.initialize(), the later calls are made by whoever got the store.
FactoryMethods == {"create", "createStrict"}
StoreTypes == {"memory", "postgresql"}

\* The IVectorStore methods of InMemoryVectorStore; none tests a flag.
MemoryMethods == {"store", "storeBatch", "search", "clear", "count"}

\* create wraps store.initialize() in try/catch and falls back to a new
\* InMemoryVectorStore; createStrict awaits it bare.
FallbackOnFailureMut(kind) == FALSE
FallbackOnFailure(kind) == kind = "create"

\* VectorStoreFactory.create / createStrict, up to the await of initialize().
FactoryCall ==
    /\ fpc = "idle"
    /\ \E kind \in FactoryMethods : \E type \in StoreTypes :
        /\ fkind' = kind
        /\ ftype' = type
        /\ IF type = "postgresql"
           THEN /\ CallMethod(1, "initialize")
                /\ fpc' = "initialize"
                /\ UNCHANGED fresult
           ELSE /\ fpc' = "resolved"
                /\ fresult' = "memory"
                /\ UNCHANGED <<lifeVars, initialized>>
                /\ UNCHANGED othersFac

\* await store.initialize() settles in the factory.
FactoryInitializeReturn ==
    /\ fpc = "initialize"
    /\ mpc[1] \in {"resolved", "rejected"}
    /\ IF mpc[1] = "resolved"
       THEN /\ fpc' = "resolved"
            /\ fresult' = "postgresql"
       ELSE IF FallbackOnFailure(fkind)
            THEN /\ fpc' = "resolved"
                 /\ fresult' = "memory"
            ELSE /\ fpc' = "rejected"
                 /\ fresult' = merr[1]
    /\ UNCHANGED <<fkind, ftype, lifeVars, initialized>>
    /\ UNCHANGED othersFac

\* The caller uses the store the factory returned.
UseStore(c) ==
    /\ fpc = "resolved"
    /\ c > 1
    /\ IF fresult = "postgresql"
       THEN \E m \in PublicMethods : CallMethod(c, m)
       ELSE /\ mpc[c] = "idle"
            /\ IF c = 2 THEN TRUE ELSE mpc[c - 1] # "idle"
            /\ \E m \in MemoryMethods : mop' = [mop EXCEPT ![c] = m]
            /\ LifeSettle(c, "resolved", "none")
            /\ UNCHANGED <<poolEnding, mconn, mInitAtCall, mAfterClose, initialized>>
            /\ UNCHANGED othersFac
    /\ UNCHANGED facVars

InitFactory ==
    /\ fkind = "none"
    /\ ftype = "none"
    /\ fpc = "idle"
    /\ fresult = "none"

NextFactory ==
    \/ FactoryCall
    \/ FactoryInitializeReturn
    \/ \E c \in Ops : UseStore(c)
    \/ \E c \in Ops : PoolConnectReturn(c)
    \/ \E c \in Ops : ClientQueryReturn(c)
    \/ \E c \in Ops : PoolEndReturn(c)

\* ------------------------------------------- IVectorStore: the two variants
\* The EmbeddingVector values handed to a store: embedding.id,
\* embedding.chunkId, documentChunk.entityId, documentChunk.content and
\* embedding.vector.
VecIds == 1..MaxVecIds
ChunkIds == {"c1"}
ScopeIds == {"e1", "e2"}
Contents == {"old", "new"}
QueryVectors == {<<1, 0>>, <<0, -1>>}
TopKs == 0..MaxTopK

\* The vector the embedding model gives each content
VectorOf(content) == IF content = "old" THEN <<1, 0>> ELSE <<0, 1>>
StoredVectors == {VectorOf(t) : t \in Contents}

EmbeddingVector ==
    {[id |-> i, chunkId |-> c, entityId |-> s, content |-> t, vector |-> VectorOf(t)]
     : i \in VecIds, c \in ChunkIds, s \in ScopeIds, t \in Contents}

\* The batches handed to storeBatch
Batches == UNION {[1..n -> EmbeddingVector] : n \in 0..MaxBatchLen}

\* The key of the UNIQUE(entity_id, chunk_id) constraint
KeyOf(e) == <<e.entityId, e.chunkId>>

\* The chunk an entry holds, whatever id it was stored under
ChunkOf(e) == [entityId |-> e.entityId, chunkId |-> e.chunkId,
               content |-> e.content, vector |-> e.vector]

Min(a, b) == IF a < b THEN a ELSE b

\* Math.sqrt, on the perfect squares the vectors above produce
Sqrt(n) == CHOOSE r \in 0..n : r * r = n

RECURSIVE SumOver(_, _, _)
SumOver(a, b, i) ==
    IF i > Len(a) THEN 0 ELSE a[i] * b[i] + SumOver(a, b, i + 1)

\* InMemoryVectorStore.cosineSimilarity
cosineSimilarity(a, b) ==
    IF Len(a) # Len(b) THEN "Vectors must have the same length"
    ELSE LET dotProduct  == SumOver(a, b, 1)
             denominator == Sqrt(SumOver(a, a, 1)) * Sqrt(SumOver(b, b, 1))
         IN  IF denominator = 0 THEN 0 ELSE dotProduct \div denominator

\* this.vectors.set(embedding.id, embedding): a Map keeps insertion order and
\* a set on a key it holds replaces the value in place.
MapSet(m, e) ==
    IF \E i \in 1..Len(m) : m[i].id = e.id
    THEN [i \in 1..Len(m) |-> IF m[i].id = e.id THEN e ELSE m[i]]
    ELSE Append(m, e)

RECURSIVE MapSetAll(_, _)
MapSetAll(m, es) ==
    IF es = <<>> THEN m ELSE MapSetAll(MapSet(m, Head(es)), Tail(es))

\* entityId ? ...filter(v => v.documentChunk.entityId === entityId) : all, and
\* WHERE ($2::TEXT IS NULL OR entity_id = $2) with $2 = entityId || null
InScopeMut(e, scope) == TRUE
InScope(e, scope) == scope = {} \/ e.entityId = Get(scope)

RECURSIVE SelectSeq2(_, _)
SelectSeq2(m, scope) ==
    IF m = <<>> THEN <<>>
    ELSE (IF InScope(Head(m), scope) THEN <<Head(m)>> ELSE <<>>)
         \o SelectSeq2(Tail(m), scope)

\* results.sort((a, b) => b.similarity - a.similarity): a stable sort, the
\* more similar first
RECURSIVE InsertBySimilarity(_, _)
InsertBySimilarity(r, s) ==
    IF s = <<>> THEN <<r>>
    ELSE IF Head(s).similarity >= r.similarity
         THEN <<Head(s)>> \o InsertBySimilarity(r, Tail(s))
         ELSE <<r>> \o s

RECURSIVE SortedBySimilarity(_)
SortedBySimilarity(rs) ==
    IF rs = <<>> THEN <<>>
    ELSE InsertBySimilarity(rs[Len(rs)],
                            SortedBySimilarity(SubSeq(rs, 1, Len(rs) - 1)))

SortDescendingMut(rs) == rs
SortDescending(rs) == SortedBySimilarity(rs)

\* results.slice(0, topK), for a count topK >= 0
SliceTopK(rs, topK) == SubSeq(rs, 1, Min(topK, Len(rs)))

\* InMemoryVectorStore.search
MemSearch(m, q, topK, scope) ==
    LET vectorsToSearch == SelectSeq2(m, scope)
        results == [i \in 1..Len(vectorsToSearch) |->
                       [chunk |-> ChunkOf(vectorsToSearch[i]),
                        similarity |-> cosineSimilarity(q, vectorsToSearch[i].vector)]]
    IN  SliceTopK(SortDescending(results), topK)

\* INSERT ... ON CONFLICT (entity_id, chunk_id) DO UPDATE SET vector, content,
\* ...: a row with the key is updated and keeps its id; otherwise the row is
\* inserted, which the PRIMARY KEY on id refuses when another row has the id.
PgInsert(rows, e) ==
    IF \E r \in rows : KeyOf(r) = KeyOf(e)
    THEN [ok |-> TRUE,
          rows |-> {IF KeyOf(r) = KeyOf(e)
                    THEN [r EXCEPT !.vector = e.vector, !.content = e.content]
                    ELSE r : r \in rows}]
    ELSE IF \E r \in rows : r.id = e.id
         THEN [ok |-> FALSE, rows |-> rows]
         ELSE [ok |-> TRUE, rows |-> rows \cup {e}]

\* BEGIN, the inserts in order, COMMIT; the first failing insert ends the
\* loop and the catch block rolls the transaction back.
RECURSIVE PgInsertAll(_, _)
PgInsertAll(rows, es) ==
    IF es = <<>> THEN [ok |-> TRUE, rows |-> rows]
    ELSE LET one == PgInsert(rows, Head(es))
         IN  IF one.ok THEN PgInsertAll(one.rows, Tail(es))
             ELSE [ok |-> FALSE, rows |-> rows]

PgStoreBatch(rows, es) ==
    LET all == PgInsertAll(rows, es)
    IN  IF all.ok THEN all ELSE [ok |-> FALSE, rows |-> rows]

\* 1 - (vector <=> $1) as similarity: <=> is the cosine distance
PgSimilarity(q, v) == 1 - (1 - cosineSimilarity(q, v))

Injective(S) == UNION {{s \in [1..n -> S] : \A i, j \in 1..n : s[i] = s[j] => i = j}
                       : n \in 0..Cardinality(S)}

NonIncreasing(rs) ==
    \A i \in 1..(Len(rs) - 1) : rs[i].similarity >= rs[i + 1].similarity

\* ORDER BY vector <=> $1 LIMIT $3 over the rows of the WHERE clause.  The
\* query runs on the HNSW index of the migration, an approximate
\* nearest-neighbour index scanned before the WHERE clause is applied: the
\* rows it yields are in distance order and at most LIMIT, and may be fewer
\* and other than the nearest ones.  The exact answer is one of them.
PgSearch(rows, q, topK, scope) ==
    LET matching == {[chunk |-> ChunkOf(r), similarity |-> PgSimilarity(q, r.vector)]
                     : r \in {x \in rows : InScope(x, scope)}}
    IN  {rs \in Injective(matching) : Len(rs) <= topK /\ NonIncreasing(rs)}

\* The call that returned last, on both variants: its arguments, whether it
\* resolved in each variant and what it resolved with.
NoCall == [op |-> "none"]

\* What the store steps leave alone.
othersStore == <<idxVars, pgVars, ansVars, lifeVars, facVars, embVars, chunkVars, cfgVars, batVars, reVars, poolVars>>

MemCount == Len(memVectors)
PgCount == Cardinality(embeddings)

\* store(embedding) on both variants
Store(e) ==
    /\ memVectors' = MapSet(memVectors, e)
    /\ embeddings' = PgInsert(embeddings, e).rows
    /\ lastCall' = [op |-> "store", memOk |-> TRUE,
                    pgOk |-> PgInsert(embeddings, e).ok,
                    memHadKey |-> \E i \in 1..Len(memVectors) :
                                      /\ KeyOf(memVectors[i]) = KeyOf(e)
                                      /\ memVectors[i].content # e.content,
                    pgHadKey |-> \E r \in embeddings :
                                      KeyOf(r) = KeyOf(e) /\ r.content # e.content]
    /\ UNCHANGED othersStore

\* storeBatch(embeddings) on both variants
StoreBatchBoth(es) ==
    /\ memVectors' = MapSetAll(memVectors, es)
    /\ embeddings' = PgStoreBatch(embeddings, es).rows
    /\ lastCall' = [op |-> "storeBatch", memOk |-> TRUE,
                    pgOk |-> PgStoreBatch(embeddings, es).ok]
    /\ UNCHANGED othersStore

\* clear() through IVectorStore
Clear ==
    /\ memVectors' = <<>>
    /\ embeddings' = {}
    /\ lastCall' = [op |-> "clear", memOk |-> TRUE, pgOk |-> TRUE]
    /\ UNCHANGED othersStore

\* count() through IVectorStore
Count ==
    /\ lastCall' = [op |-> "count", memOk |-> TRUE, pgOk |-> TRUE,
                    memCount |-> MemCount, pgCount |-> PgCount]
    /\ UNCHANGED <<memVectors, embeddings>>
    /\ UNCHANGED othersStore

\* search(queryVector, topK, entityId?) on both variants
Search(q, topK, scope) ==
    /\ \E found \in PgSearch(embeddings, q, topK, scope) :
           lastCall' = [op |-> "search", queryVector |-> q, topK |-> topK,
                        scope |-> scope, memOk |-> TRUE, pgOk |-> TRUE,
                        memResults |-> MemSearch(memVectors, q, topK, scope),
                        pgResults |-> found]
    /\ UNCHANGED <<memVectors, embeddings>>
    /\ UNCHANGED othersStore

InitStore ==
    /\ memVectors = <<>>
    /\ embeddings = {}
    /\ lastCall = NoCall

\* The calls that change or count what the stores hold
NextStore ==
    \/ \E e \in EmbeddingVector : Store(e)
    \/ \E es \in Batches : StoreBatchBoth(es)
    \/ Clear
    \/ Count

\* Stores followed by searches
NextSearch ==
    \/ \E e \in EmbeddingVector : Store(e)
    \/ \E q \in QueryVectors, topK \in TopKs,
          scope \in {{}} \cup {Some(s) : s \in ScopeIds} : Search(q, topK, scope)

\* PgVectorStore.clear(entityId?): DELETE FROM embeddings WHERE entity_id = $1
\* when an entityId is given, DELETE FROM embeddings otherwise
PgClearMut(rows, scope) == {}
PgClear(rows, scope) == IF scope = {} THEN {} ELSE {r \in rows : r.entityId # Get(scope)}

\* PgVectorStore.count(entityId?): SELECT COUNT(*) ... WHERE entity_id = $1
\* when an entityId is given, SELECT COUNT(*) FROM embeddings otherwise
PgCountOf(rows, scope) == Cardinality({r \in rows : InScope(r, scope)})

\* clear(entityId?) on the PostgreSQL variant
ClearEntity(scope) ==
    /\ embeddings' = PgClear(embeddings, scope)
    /\ lastCall' = [op |-> "pgClear", scope |-> scope, pgBefore |-> embeddings]
    /\ UNCHANGED memVectors
    /\ UNCHANGED othersStore

\* Stores followed by scoped and unscoped clears of the PostgreSQL variant
NextClear ==
    \/ \E e \in EmbeddingVector : Store(e)
    \/ \E scope \in {{}} \cup {Some(s) : s \in ScopeIds} : ClearEntity(scope)

\* ------------------------------------ OllamaLLMService.generateEmbeddings
\* The texts of the chunks of one entity, and what POST /api/embed may answer:
\* no answer at all, a status that is not ok, or a JSON body whose embeddings
\* field is absent, is not an array, or is an array of any length.
Texts == UNION {[1..n -> Contents] : n \in 1..MaxTexts}

EmbedResponses ==
    {[kind |-> "networkError"], [kind |-> "status"], [kind |-> "noEmbeddings"],
     [kind |-> "notArray"]}
    \cup {[kind |-> "array", embeddings |-> vs]
          : vs \in UNION {[1..n -> StoredVectors] : n \in 0..(MaxTexts + 1)}}

\* What generateEmbeddings settles with, given the response: the catch block
\* wraps every error thrown in the try block
\* around fetch and response.json(); an array is returned as it is, whatever
\* its length
EmbedOutcome(resp, inputs) ==
    IF resp.kind \in {"networkError", "status", "noEmbeddings", "notArray"}
    THEN [kind |-> "rejected", error |-> "Embedding generation failed"]
    ELSE [kind |-> "resolved", embeddings |-> resp.embeddings]

\* embeddings[index]: undefined past the end of the array
At(seq, index) == IF index \in 1..Len(seq) THEN Some(seq[index]) ELSE {}

\* allChunks.map((chunk, index) => ({..., vector: embeddings[index]}))
PairWithVectors(chunkTexts, embs) ==
    [index \in 1..Len(chunkTexts) |->
        [content |-> chunkTexts[index], vector |-> At(embs, index)]]

\* What the embedding steps leave alone.
othersEmbed == <<idxVars, pgVars, ansVars, lifeVars, facVars, stVars, chunkVars, cfgVars, batVars, reVars, poolVars>>

\* indexEntityInternal calls generateEmbeddings(chunkTexts): the call is
\* suspended at fetch
GenerateEmbeddings(inputs) ==
    /\ gpc = "idle"
    /\ gpc' = "fetch"
    /\ ginputs' = inputs
    /\ UNCHANGED <<gresult, gstored>>
    /\ UNCHANGED othersEmbed

\* the response arrives and generateEmbeddings settles
EmbedFetchReturn(resp) ==
    /\ gpc = "fetch"
    /\ gresult' = EmbedOutcome(resp, ginputs)
    /\ gpc' = gresult'.kind
    /\ UNCHANGED <<ginputs, gstored>>
    /\ UNCHANGED othersEmbed

\* the await in indexEntityInternal resumes with the vectors, pairs them with
\* the chunks and calls storeBatch: the in-memory store keeps the embeddings
\* as they are; PgVectorStore.storeBatch calls vector.join on each, which
\* throws on undefined, rolls back and rejects
IndexStoreBatch ==
    /\ gpc = "resolved"
    /\ LET embeddingVectors == PairWithVectors(ginputs, gresult.embeddings)
           broken == \E i \in 1..Len(embeddingVectors) : embeddingVectors[i].vector = {}
       IN  IF storeKind = "postgresql" /\ broken
           THEN gpc' = "storeFailed" /\ UNCHANGED gstored
           ELSE gpc' = "stored" /\ gstored' = embeddingVectors
    /\ UNCHANGED <<ginputs, gresult>>
    /\ UNCHANGED othersEmbed

InitEmbed ==
    /\ gpc = "idle"
    /\ ginputs = <<>>
    /\ gresult = [kind |-> "pending"]
    /\ gstored = <<>>

NextEmbed ==
    \/ \E inputs \in Texts : GenerateEmbeddings(inputs)
    \/ \E resp \in EmbedResponses : EmbedFetchReturn(resp)
    \/ IndexStoreBatch

\* ------------------------------------------ DocumentProcessor.chunkDocument
\* cleanContent.split(/\s+/): extractText leaves single spaces between words
\* and none at the ends, so a document is its sequence of words, and a
\* chunk's content, chunkWords.join(' '), is the sequence of its words.
Words == {"a", "b"}
Documents == UNION {[1..n -> Words] : n \in 0..MaxWords}

\* The configurations the claim calls accepted: chunkSize W >= 1 and
\* chunkOverlap O with 0 <= O < W
ChunkConfigs == {cfg \in [chunkSize : 1..MaxChunkSize, chunkOverlap : 0..MaxChunkSize] :
                    cfg.chunkOverlap < cfg.chunkSize}

\* words.slice(start, end), 0-based and clipped to the array
Slice(words, start, end) ==
    SubSeq(words, start + 1, Min(end, Len(words)))

\* currentIndex += chunkSize - chunkOverlap
Stride(cfg) == cfg.chunkSize - cfg.chunkOverlap

\* id: `${entityId}-${source}-${chunkIndex}`
ChunkIdOfMut(entityId, source, chunkIndex) == <<entityId, "-", source>>
ChunkIdOf(entityId, source, chunkIndex) == <<entityId, "-", source, "-", chunkIndex>>

\* The entity and the origin ('catalog' | 'techdocs') a text is chunked for
DocKeys == [entityId : {"e1"}, source : {"catalog", "techdocs"}]

\* the while loop, from currentIndex on, appending to chunks
RECURSIVE ChunkLoop(_, _, _, _, _)
ChunkLoop(words, key, cfg, currentIndex, chunks) ==
    IF currentIndex < Len(words)
    THEN LET chunkWords == Slice(words, currentIndex, currentIndex + cfg.chunkSize)
             pushed == IF chunkWords # <<>>
                       THEN Append(chunks,
                                [id |-> ChunkIdOf(key.entityId, key.source, Len(chunks)),
                                 entityId |-> key.entityId,
                                 source |-> key.source,
                                 content |-> chunkWords,
                                 chunkIndex |-> Len(chunks),
                                 totalChunks |-> 0])
                       ELSE chunks
         IN  ChunkLoop(words, key, cfg, currentIndex + Stride(cfg), pushed)
    ELSE chunks

\* chunkDocument: no chunk for an empty document, else the loop and the
\* backfill of totalChunks
chunkDocument(words, key, cfg) ==
    IF words = <<>> THEN <<>>
    ELSE LET chunks == ChunkLoop(words, key, cfg, 0, <<>>)
         IN  [i \in 1..Len(chunks) |-> [chunks[i] EXCEPT !.totalChunks = Len(chunks)]]

\* What chunking leaves alone.
othersChunk == <<idxVars, pgVars, ansVars, lifeVars, facVars, stVars, embVars, cfgVars, batVars, reVars, poolVars>>

\* One call of chunkDocument under one configuration
ChunkDocument(words, key, cfg) ==
    /\ document' = words
    /\ docKey' = key
    /\ chunkConfig' = cfg
    /\ docChunks' = chunkDocument(words, key, cfg)
    /\ UNCHANGED othersChunk

InitChunk ==
    /\ document = <<>>
    /\ chunkConfig = [chunkSize |-> 1, chunkOverlap |-> 0]
    /\ docChunks = <<>>
    /\ docKey = [entityId |-> "e1", source |-> "catalog"]

NextChunk ==
    \E words \in Documents, key \in DocKeys, cfg \in ChunkConfigs :
        ChunkDocument(words, key, cfg)

\* ------------------------------------------------ ConfigService.loadConfig
\* askAi.chunkSize and askAi.chunkOverlap as app-config gives them: absent
\* ({}) or a number
RawNumbers == {{}} \cup {Some(v) : v \in 0..MaxChunkSize}

\* getOptionalNumber(key) || d: absent and 0 both give the default
OrDefault(opt, d) == IF opt = {} \/ opt = {0} THEN d ELSE Get(opt)

\* loadConfig(): the two chunking fields of the AskAiConfig it returns; no
\* value is refused
loadConfig(rawSize, rawOverlap) ==
    [chunkSize |-> OrDefault(rawSize, defaultChunkSize),
     chunkOverlap |-> OrDefault(rawOverlap, defaultChunkOverlap)]

\* currentIndex after one more pass of the loop body.  A negative index
\* stays below words.length for good when the stride is not positive, so
\* every negative value is kept as -1.
Advance(currentIndex, cfg) ==
    IF currentIndex + Stride(cfg) < 0 THEN 0 - 1 ELSE currentIndex + Stride(cfg)

\* What the configuration and loop steps leave alone.
othersCfg == <<idxVars, pgVars, ansVars, lifeVars, facVars, stVars, embVars, chunkVars, batVars, reVars, poolVars>>

\* new ConfigService(config): the constructor caches loadConfig()
LoadConfig(rawSize, rawOverlap) ==
    /\ lpc = "new"
    /\ cachedConfig' = loadConfig(rawSize, rawOverlap)
    /\ lpc' = "configured"
    /\ UNCHANGED <<wordCount, lindex>>
    /\ UNCHANGED othersCfg

\* chunkDocument(content, ...) up to its loop: no chunk and no loop for an
\* empty cleanContent, else currentIndex = 0
ChunkCall(n) ==
    /\ lpc = "configured"
    /\ wordCount' = n
    /\ lindex' = 0
    /\ lpc' = IF n = 0 THEN "returned" ELSE "loop"
    /\ UNCHANGED cachedConfig
    /\ UNCHANGED othersCfg

\* while (currentIndex < words.length) { ...; currentIndex += chunkSize -
\* chunkOverlap }: one test of the condition, and one pass when it holds
LoopStep ==
    /\ lpc = "loop"
    /\ IF lindex < wordCount
       THEN /\ lindex' = Advance(lindex, cachedConfig)
            /\ UNCHANGED lpc
       ELSE /\ lpc' = "returned"
            /\ UNCHANGED lindex
    /\ UNCHANGED <<cachedConfig, wordCount>>
    /\ UNCHANGED othersCfg

\* the next call of chunkDocument
ChunkAgain ==
    /\ lpc = "returned"
    /\ lpc' = "configured"
    /\ UNCHANGED <<cachedConfig, wordCount, lindex>>
    /\ UNCHANGED othersCfg

InitCfg ==
    /\ lpc = "new"
    /\ cachedConfig = [chunkSize |-> defaultChunkSize, chunkOverlap |-> defaultChunkOverlap]
    /\ wordCount = 0
    /\ lindex = 0

NextCfg ==
    \/ \E rawSize \in RawNumbers, rawOverlap \in RawNumbers : LoadConfig(rawSize, rawOverlap)
    \/ \E n \in 0..MaxWords : ChunkCall(n)
    \/ LoopStep
    \/ ChunkAgain

\* ----------------------------------- SimpleRAGStrategy.indexAll: the batches
\* The run of indexAll over a list long enough for a second batch, with each
\* indexEntityInternal task reduced to waiting, running or finished.
ItemIds == 1..MaxItems

\* The batch an item belongs to: entities.slice(i, i + batchSize) for
\* i = 0, batchSize, 2 * batchSize, ...
BatchOf(k) == (k - 1) \div batchSize

\* await Promise.all(batch.map(...)) resolves once every task of the batch
\* has settled
BatchSettledMut(i, n, its) == TRUE
BatchSettled(i, n, its) == \A k \in BatchIdx(i, n) : its[k] = "finished"

\* What the batch steps leave alone.
othersBat == <<idxVars, pgVars, ansVars, lifeVars, facVars, stVars, embVars, chunkVars,
               cfgVars, reVars, poolVars>>

\* the loop test and, when it holds, batch.map(entity =>
\* this.indexEntityInternal(entity)): every task of the batch is started; a
\* task whose synchronous prefix throws outside its try block makes
\* Promise.all, and with it indexAll, reject while the others go on
BatchLoop(i, n, its) ==
    IF i < n
    THEN \E throwing \in SUBSET BatchIdx(i, n) :
             /\ bitems' = [k \in ItemIds |->
                              IF k \in throwing THEN "rejected"
                              ELSE IF k \in BatchIdx(i, n) THEN "running"
                              ELSE its[k]]
             /\ bpc' = IF throwing = {} THEN "batch" ELSE "rejected"
             /\ bi' = i
    ELSE /\ bpc' = "count"
         /\ bi' = i
         /\ bitems' = its

\* indexAll() is called: await this.vectorStore.clear()
BatchIndexAll ==
    /\ bpc = "idle"
    /\ bpc' = "clear"
    /\ UNCHANGED <<bn, bi, bitems>>
    /\ UNCHANGED othersBat

\* clear() settles: await fetchAllEntities()
BatchClearReturn ==
    /\ bpc = "clear"
    /\ bpc' \in {"fetch", "rejected"}
    /\ UNCHANGED <<bn, bi, bitems>>
    /\ UNCHANGED othersBat

\* fetchAllEntities() settles: the loop starts at i = 0
BatchFetchReturn ==
    /\ bpc = "fetch"
    /\ \/ \E n \in 0..MaxItems :
              /\ bn' = n
              /\ BatchLoop(0, n, bitems)
       \/ /\ bpc' = "rejected"
          /\ UNCHANGED <<bn, bi, bitems>>
    /\ UNCHANGED othersBat

\* a running task settles; everything past the synchronous prefix is inside
\* the task's try block, so it resolves
TaskSettles(k) ==
    /\ bitems[k] = "running"
    /\ bitems' = [bitems EXCEPT ![k] = "finished"]
    /\ UNCHANGED <<bpc, bn, bi>>
    /\ UNCHANGED othersBat

\* Promise.all resolves: i += batchSize and the loop goes on
BatchAllJoin ==
    /\ bpc = "batch"
    /\ BatchSettled(bi, bn, bitems)
    /\ BatchLoop(bi + batchSize, bn, bitems)
    /\ UNCHANGED bn
    /\ UNCHANGED othersBat

\* await this.vectorStore.count() settles and indexAll returns
BatchCountReturn ==
    /\ bpc = "count"
    /\ bpc' \in {"resolved", "rejected"}
    /\ UNCHANGED <<bn, bi, bitems>>
    /\ UNCHANGED othersBat

InitBat ==
    /\ bpc = "idle"
    /\ bn = 0
    /\ bi = 0
    /\ bitems = [k \in ItemIds |-> "waiting"]

NextBat ==
    \/ BatchIndexAll
    \/ BatchClearReturn
    \/ BatchFetchReturn
    \/ \E k \in ItemIds : TaskSettles(k)
    \/ BatchAllJoin
    \/ BatchCountReturn

\* ---------------------------- SimpleRAGStrategy.indexEntity: re-indexing
\* One entity indexed again and again as its catalog text and its TechDocs
\* text change.  The store's entries of the entity are chunk records; their
\* vectors play no part here.
Versions == UNION {[1..n -> Words] : n \in 0..MaxVersionWords}

\* allChunks: the catalog chunks, then the TechDocs chunks when the entity has
\* documentation
AllChunks(catalog, docs, cfg) ==
    chunkDocument(catalog, [entityId |-> "e1", source |-> "catalog"], cfg)
        \o (IF docs = {} THEN <<>>
            ELSE chunkDocument(Get(docs), [entityId |-> "e1", source |-> "techdocs"], cfg))

\* storeBatch of vectors built with id: chunk.id, chunkId: chunk.id: every
\* entry is set under its id (in memory) or upserted on (entity_id, chunk_id);
\* nothing is deleted
UpsertChunks(store, chunks) ==
    {r \in store : \A i \in 1..Len(chunks) : chunks[i].id # r.id}
        \cup {chunks[i] : i \in 1..Len(chunks)}

\* What re-indexing leaves alone.
othersRe == <<idxVars, pgVars, ansVars, lifeVars, facVars, stVars, embVars, chunkVars,
              cfgVars, batVars, poolVars>>

\* indexEntity(ref) with the entity's current texts: fetchEntity, then
\* indexEntityInternal, which returns early without chunks, swallows a failed
\* embedding or storeBatch, and otherwise stores the chunks
ReindexEntity(catalog, docs) ==
    LET allChunks == AllChunks(catalog, docs, chunkConfig)
    IN  /\ eversion' = [catalog |-> catalog, docs |-> docs]
        /\ echunks' = allChunks
        /\ IF allChunks = <<>>
           THEN /\ estored' = FALSE
                /\ UNCHANGED estore
           ELSE \/ /\ estored' = TRUE
                   /\ estore' = UpsertChunks(estore, allChunks)
                \/ /\ estored' = FALSE
                   /\ UNCHANGED estore
        /\ UNCHANGED othersRe

InitRe ==
    /\ eversion = [catalog |-> <<>>, docs |-> {}]
    /\ echunks = <<>>
    /\ estore = {}
    /\ estored = FALSE

NextRe ==
    \E catalog \in Versions, docs \in {{}} \cup {Some(d) : d \in Versions} :
        ReindexEntity(catalog, docs)

\* ------------------------------------------- PgVectorStore: pooled clients
\* Operations of an initialized PgVectorStore (and initialize itself) running
\* side by side on one pool.  A query is in flight on a client from the
\* moment client.query is called until its promise settles.
PoolOps == 1..MaxPoolOps
Clients == 1..MaxClients

PoolMethods ==
    {"initialize", "store", "storeBatch", "search", "clear", "count", "getStats",
     "healthCheck"}

\* initialize runs testConnection, verifyPgVector and verifySchema, each with
\* a client of its own; every other method connects once
Cycles(method) == IF method = "initialize" THEN 3 ELSE 1

\* The statements a method awaits on its client, in order (storeBatch with a
\* batch of one row)
Statements(method) ==
    IF method = "storeBatch" THEN <<"BEGIN", "INSERT", "COMMIT">> ELSE <<"query">>

\* finally { client.release(); } runs whether the try block returned or threw
ReleasesOnMut(ok) == ok
ReleasesOn(ok) == TRUE

\* How the method settles: healthCheck catches every error and returns false
SettledAs(method, ok) ==
    IF ok \/ method = "healthCheck" THEN "resolved" ELSE "rejected"

NoOp == [method |-> "none", arg |-> FALSE, pc |-> "idle", cycle |-> 0, step |-> 0,
         client |-> 0, acquired |-> 0, released |-> 0]

\* What the pool steps leave alone.
othersPool == <<idxVars, pgVars, ansVars, lifeVars, facVars, stVars, embVars, chunkVars,
                cfgVars, batVars, reVars>>

\* The try block is left, with or without an error: the finally block runs,
\* then the method connects again (initialize's next check) or settles.
PoolFinish(o, ok) ==
    LET rec == qop[o]
        again == ok /\ rec.cycle < Cycles(rec.method)
    IN  /\ checkedOut' = IF ReleasesOn(ok) THEN checkedOut \ {rec.client} ELSE checkedOut
        /\ qop' = [qop EXCEPT ![o] =
                      [rec EXCEPT !.client = IF ReleasesOn(ok) THEN 0 ELSE @,
                                  !.released = IF ReleasesOn(ok) THEN @ + 1 ELSE @,
                                  !.step = 0,
                                  !.cycle = IF again THEN @ + 1 ELSE @,
                                  !.pc = IF again THEN "connect"
                                         ELSE SettledAs(rec.method, ok)]]

\* The argument that matters here: whether clear was given an entityId and
\* whether storeBatch was given a non-empty batch
Args(method) == IF method \in {"clear", "storeBatch"} THEN BOOLEAN ELSE {TRUE}

\* A method is called; storeBatch with an empty batch returns before
\* connecting.
PoolCall(o, method, arg) ==
    /\ qop[o].pc = "idle"
    /\ qop' = [qop EXCEPT ![o] =
                  [NoOp EXCEPT !.method = method, !.arg = arg,
                               !.pc = IF method = "storeBatch" /\ ~arg
                                      THEN "resolved" ELSE "connect",
                               !.cycle = 1]]
    /\ UNCHANGED <<checkedOut, inFlight>>
    /\ UNCHANGED othersPool

\* await this.pool.connect() settles: with an idle client, on which the first
\* statement is sent, or with an error
ConnectSettles(o) ==
    /\ qop[o].pc = "connect"
    /\ \/ \E cl \in Clients \ checkedOut :
            /\ checkedOut' = checkedOut \cup {cl}
            /\ qop' = [qop EXCEPT ![o].client = cl, ![o].acquired = @ + 1,
                                  ![o].step = 1, ![o].pc = "query"]
            /\ inFlight' = inFlight \cup {<<cl, o, Statements(qop[o].method)[1]>>}
       \/ /\ qop' = [qop EXCEPT ![o].pc = SettledAs(qop[o].method, FALSE)]
          /\ UNCHANGED <<checkedOut, inFlight>>
    /\ UNCHANGED othersPool

\* The awaited statement settles.  After the last one the result is examined
\* (verifyPgVector and verifySchema throw on a negative answer) and an unscoped
\* clear sends VACUUM without awaiting it; a failed statement of storeBatch is
\* followed by ROLLBACK in the catch block.
QuerySettles(o) ==
    LET rec == qop[o]
        cl == rec.client
        stmts == Statements(rec.method)
        rest == inFlight \ {<<cl, o, stmts[rec.step]>>}
    IN  /\ rec.pc = "query"
        /\ \/ /\ rec.step < Len(stmts)
              /\ qop' = [qop EXCEPT ![o].step = @ + 1]
              /\ inFlight' = rest \cup {<<cl, o, stmts[rec.step + 1]>>}
              /\ UNCHANGED checkedOut
           \/ /\ rec.step = Len(stmts)
              /\ \E good \in (IF rec.method = "initialize" THEN BOOLEAN ELSE {TRUE}) :
                    /\ inFlight' = rest \cup (IF rec.method = "clear" /\ ~rec.arg
                                              THEN {<<cl, o, "VACUUM">>} ELSE {})
                    /\ PoolFinish(o, good)
           \/ IF rec.method = "storeBatch"
              THEN /\ qop' = [qop EXCEPT ![o].pc = "rollback"]
                   /\ inFlight' = rest \cup {<<cl, o, "ROLLBACK">>}
                   /\ UNCHANGED checkedOut
              ELSE /\ inFlight' = rest
                   /\ PoolFinish(o, FALSE)
        /\ UNCHANGED othersPool

\* await client.query('ROLLBACK') settles; either way storeBatch rejects
RollbackSettles(o) ==
    /\ qop[o].pc = "rollback"
    /\ inFlight' = inFlight \ {<<qop[o].client, o, "ROLLBACK">>}
    /\ PoolFinish(o, FALSE)
    /\ UNCHANGED othersPool

\* The VACUUM of a clear settles; its .catch logs a failure
VacuumSettles(o) ==
    /\ \E cl \in Clients : <<cl, o, "VACUUM">> \in inFlight
    /\ inFlight' = {q \in inFlight : ~(q[2] = o /\ q[3] = "VACUUM")}
    /\ UNCHANGED <<qop, checkedOut>>
    /\ UNCHANGED othersPool

InitPool ==
    /\ qop = [o \in PoolOps |-> NoOp]
    /\ checkedOut = {}
    /\ inFlight = {}

NextPool ==
    \/ \E o \in PoolOps, method \in PoolMethods :
          \E arg \in Args(method) : PoolCall(o, method, arg)
    \/ \E o \in PoolOps : ConnectSettles(o)
    \/ \E o \in PoolOps : QuerySettles(o)
    \/ \E o \in PoolOps : RollbackSettles(o)
    \/ \E o \in PoolOps : VacuumSettles(o)

Init ==
    /\ InitIndex /\ InitPg /\ InitAnswer /\ InitLife /\ InitFactory /\ InitStore
    /\ InitEmbed /\ InitChunk /\ InitCfg /\ InitBat /\ InitRe
    /\ InitPool

\* The full-index triggers, interleaved at every suspension point.
SpecIndex == Init /\ [][NextIndex]_vars

\* The same, with the wall clock advancing between the steps.
SpecIndexTimed == Init /\ [][NextIndexTimed]_vars

\* The single-entity indexing handler.
SpecEntity == Init /\ [][NextEntity]_vars

\* Concurrent storeBatch calls on the PostgreSQL store.
InitPgStore == Init /\ storeKind = "postgresql"

SpecPg == InitPgStore /\ [][NextPg]_vars

\* One question answered by RAGService.answerQuestion.
SpecAnswer == Init /\ [][NextAnswer]_vars

\* The calls made to one PgVectorStore over its life.
SpecLife == InitPgStore /\ [][NextLife]_vars

\* The factory creating the store, and the store's first uses.
SpecFactory == Init /\ [][NextFactory]_vars

\* The same calls made to an InMemoryVectorStore and to an initialized
\* PgVectorStore, one after the other.
SpecStore == Init /\ [][NextStore]_vars

\* Searches of both stores after the same store calls.
SpecSearch == Init /\ [][NextSearch]_vars

\* One indexing task embedding its chunks and storing them.
SpecEmbed == Init /\ [][NextEmbed]_vars

\* Documents chunked under every accepted configuration.
SpecChunk == Init /\ [][NextChunk]_vars

\* The configuration loaded at start-up and the chunking loop run under it;
\* the loop body holds no await, so a running loop keeps running.
SpecCfg == Init /\ [][NextCfg]_vars

FairSpecCfg == SpecCfg /\ WF_vars(LoopStep)

\* One indexAll run over a list of up to MaxItems entities.
SpecBat == Init /\ [][NextBat]_vars

\* Stores and clears of the PostgreSQL variant.
SpecClear == Init /\ [][NextClear]_vars

\* One entity indexed again as its texts change.
SpecRe == Init /\ [][NextRe]_vars

\* Operations of one PgVectorStore sharing its pool.
SpecPool == Init /\ [][NextPool]_vars

\* Every external call eventually returns and the event loop eventually
\* resumes a settled promise: while some await of a run or of a task can
\* settle, one eventually does.
Progress == \E c \in Callers : RunStep(c) \/ \E k \in 1..MaxEntities : ItemStep(c, k)

FairIndex == WF_vars(Progress)

FairSpecIndex == SpecIndex /\ FairIndex

\* ------------------------------------------------------------------ claims
RunningAll == {c \in Callers : pc[c] \in AllRunning}

\* The step is call c finishing its accepted run (resolved or rejected).
Finishes(c) == pc[c] \in AllRunning /\ pc'[c] \in {"done", "failed"}

\* C1: at most one call executes strategy.indexAll at any time, and a trigger
\* that arrives while indexingInProgress is true returns without calling it:
\* no store clear, no entity fetch, no task started, no storeBatch.
C1_SingleFlight ==
    /\ [](Cardinality(RunningAll) <= 1)
    /\ [][\A c \in Callers :
            (indexingInProgress /\ pc[c] = "idle" /\ pc'[c] # "idle")
                => (/\ pc'[c] = "skipped"
                    /\ UNCHANGED <<vectors, items, fetched, batchAt>>)]_vars

C1_Witness ==
    \E c, d \in Callers : pc[c] \in AllRunning /\ pc[d] = "skipped"

\* C2: storeBatch is all-or-nothing.  A failed row insert sends the call to
\* ROLLBACK and then rejects it, and no row of that batch is ever visible; the
\* committed table (and so count()) changes only in the COMMIT step of a
\* call, which makes all rows of its batch visible together; a call that
\* resolves has committed every row of its batch.
C2_BatchAllOrNothing ==
    /\ [](\A b \in Callers :
            cause[b] = "insert" => (/\ spc[b] \in {"rollback", "rejected"}
                                    /\ \A k \in Keys : <<k, b>> \notin table))
    /\ [][/\ \A b \in Callers :
                (spc[b] = "rollback") => (spc'[b] \in {"rollback", "rejected"})
          /\ (table' # table \/ count' # count)
                => (\E b \in Callers : /\ spc[b] = "commit"
                                       /\ spc'[b] # "commit"
                                       /\ table' = Upsert(table, batch[b], b))
          /\ \A b \in Callers :
                (spc[b] = "commit" /\ spc'[b] = "resolved")
                    => (/\ table' = Upsert(table, batch[b], b)
                        /\ \A k \in batch[b] : <<k, b>> \in table')]_vars

C2_Witness ==
    \E b, d \in Callers :
        /\ spc[b] = "rejected" /\ cause[b] = "insert"
        /\ spc[d] = "resolved" /\ \E k \in Keys : <<k, d>> \in table

\* C3 (as claimed): no failure in the processing of a single item makes
\* indexAll reject; a run rejects only when clear, the entity fetch or count
\* fails.
C3_ItemFailureSkipped ==
    \A c \in Callers :
        pc[c] = "failed" => \A k \in DOMAIN items[c] : items[c][k].pc # "rejected"

\* C4 (as claimed): whenever indexEntity resolves, the chunks the item
\* produced, if any, have been stored.
C4_EntityErrorsPropagate ==
    \A c \in Callers :
        pc[c] = "edone" =>
            \/ items[c][1].pc = "empty"
            \/ items[c][1].pc = "stored" /\ items[c][1].e \in vectors

\* C5: an accepted run holds indexingInProgress = true from its start until
\* it completes and sets it to false when it completes, resolved or rejected;
\* with every external call returning, the flag is eventually false again.
C5_FlagLifecycle ==
    /\ [](\A c \in Callers : pc[c] \in AllRunning => indexingInProgress)
    /\ [][\A c \in Callers : Finishes(c) => ~indexingInProgress']_vars
    /\ (indexingInProgress ~> ~indexingInProgress)

C5_Witness ==
    \E c \in Callers : pc[c] = "failed" /\ ~indexingInProgress

\* C6 (as claimed): when an accepted run finishes, resolved or rejected,
\* lastIndexTime is non-null and not earlier than the run's start.
C6_StampedOnAnyCompletion ==
    [][\A c \in Callers :
        Finishes(c) => (/\ getIndexingStatus.lastIndexTime' # NullTime
                        /\ getIndexingStatus.lastIndexTime' >= startTime[c])]_vars

\* C6 (amended): a run that resolves stamps lastIndexTime with the completion
\* time, which is non-null and not earlier than the run's start; a run that
\* rejects leaves lastIndexTime as it was; nothing else changes it.
C6_StampedOnSuccessOnly ==
    [][/\ \A c \in Callers :
            (pc[c] \in AllRunning /\ pc'[c] = "done")
                => (/\ getIndexingStatus.lastIndexTime' = now
                    /\ getIndexingStatus.lastIndexTime' # NullTime
                    /\ getIndexingStatus.lastIndexTime' >= startTime[c])
       /\ \A c \in Callers :
            (pc[c] \in AllRunning /\ pc'[c] = "failed")
                => (lastIndexTime' = lastIndexTime)
       /\ (lastIndexTime' # lastIndexTime)
            => (\E c \in Callers : pc[c] \in AllRunning /\ pc'[c] = "done")]_vars

C6_Witness ==
    \E c, d \in Callers :
        /\ pc[c] = "done" /\ pc[d] = "failed" /\ c < d
        /\ getIndexingStatus.lastIndexTime # NullTime
        /\ getIndexingStatus.lastIndexTime < now

\* C7: a call rejected by the guard returns normally and leaves
\* indexingInProgress and lastIndexTime unchanged; the flag stays true while
\* the accepted run is running and only that run's completion clears it.
C7_RejectedCallIsNoOp ==
    /\ [](\A c, d \in Callers :
            (pc[c] = "skipped" /\ pc[d] \in AllRunning) => getIndexingStatus.inProgress)
    /\ [][/\ \A c \in Callers :
                (pc[c] = "idle" /\ pc'[c] = "skipped")
                    => (UNCHANGED <<indexingInProgress, lastIndexTime>>)
          /\ (indexingInProgress /\ ~indexingInProgress')
                => (\E c \in Callers : Finishes(c))]_vars

C7_Witness ==
    \E c, d \in Callers :
        pc[c] = "skipped" /\ pc[d] \in {"done", "failed"} /\ ~getIndexingStatus.inProgress

\* The question was asked with no context supplied.
NoContextSupplied == apc # "idle" /\ areq.context = {}

\* The fallback call: a chat call whose messages hold no system message.
IsFallbackCall(call) == \A i \in 1..Len(call.messages) : call.messages[i].role # "system"

\* C8: with no context supplied, a failure of the query embedding or of the
\* store search makes answer() reject with that error and no chat call is
\* made; the fallback chat call is made only after retrieve resolved with
\* zero chunks.
C8_RetrievalErrorPropagates ==
    /\ NoContextSupplied /\ retrieveOutcome = "rejected"
        => /\ apc = "threw"
           /\ aresult.kind = "threw"
           /\ aresult.error \in {"embedding", "search"}
           /\ aresult.error = "embedding" <=> searchLog = <<>>
           /\ chatLog = <<>>
    /\ NoContextSupplied
        => \A i \in 1..Len(chatLog) :
              IsFallbackCall(chatLog[i])
                  => /\ retrieveOutcome = "resolved"
                     /\ Len(embedLog) = 1 /\ Len(searchLog) = 1
                     /\ resolvedContext = <<>>

C8_Witness ==
    /\ NoContextSupplied
    /\ apc = "threw" /\ aresult.error = "search"
    /\ Len(embedLog) = 1 /\ Len(searchLog) = 1

\* answer() has resolved its context and found it empty.
EmptyResolved == apc \in {"chat", "returned"} /\ Len(resolvedContext) = 0

\* C9: when the resolved context is empty, answer() makes exactly one chat
\* call, with the user message alone and the resolved model, and returns that
\* call's reply with sources = [] and the resolved model; it raises no error
\* of its own (the only error it can still settle with is the chat call's).
C9_EmptyContextFallback ==
    /\ EmptyResolved
        => /\ Len(chatLog) = 1
           /\ chatLog[1].messages = <<[role |-> "user", content |-> <<areq.query>>]>>
           /\ chatLog[1].model = ResolveModel(areq.model)
    /\ EmptyResolved /\ apc = "returned"
        => /\ aresult.kind = "returned"
           /\ aresult.error = "none"
           /\ aresult.answer = chatLog[1].reply
           /\ aresult.answer \in Replies
           /\ aresult.sources = <<>>
           /\ aresult.model = ResolveModel(areq.model)
           /\ aresult.model = IF areq.model \in {{}, {""}}
                              THEN "llama3.2" ELSE Get(areq.model)
    /\ apc = "threw" /\ chatLog # <<>> => aresult.error = "chat"

C9_Witness ==
    /\ NoContextSupplied /\ retrieveOutcome = "resolved"
    /\ EmptyResolved /\ apc = "returned"
    /\ aresult.sources = <<>> /\ aresult.model = "llama3.2"

\* The question was asked with a precomputed context.
ContextSupplied == apc # "idle" /\ areq.context # {}

\* C10: with a precomputed context, answer() makes no embedding call and no
\* store search and returns the supplied chunks, in the supplied order, as
\* sources; with a non-empty context it makes exactly one chat call, whose
\* messages are [system, user(query)].
C10_PrecomputedContext ==
    ContextSupplied
        => /\ embedLog = <<>>
           /\ searchLog = <<>>
           /\ retrieveOutcome = "none"
           /\ apc = "returned" => aresult.sources = Get(areq.context)
           /\ Len(Get(areq.context)) > 0
                => /\ Len(chatLog) = 1
                   /\ Len(chatLog[1].messages) = 2
                   /\ chatLog[1].messages[1].role = "system"
                   /\ chatLog[1].messages[1].content
                         = [i \in 1..Len(Get(areq.context)) |->
                               <<i, Get(areq.context)[i]>>]
                   /\ chatLog[1].messages[2]
                         = [role |-> "user", content |-> <<areq.query>>]

C10_Witness ==
    /\ ContextSupplied /\ apc = "returned"
    /\ Len(aresult.sources) >= 2
    /\ aresult.sources[1] # aresult.sources[2]
    /\ Len(chatLog) = 1

\* The call has been made.
Made(c) == mpc[c] # "idle"

\* C11 (as claimed): every public method other than initialize, called while
\* this.initialized is false, rejects with the not-initialized error and
\* never calls pool.connect().
C11_AnyMethodNeedsInit ==
    \A c \in Ops :
        (Made(c) /\ mop[c] # "initialize" /\ ~mInitAtCall[c])
            => (/\ mpc[c] = "rejected"
                /\ merr[c] = "notInitialized"
                /\ ~mconn[c])

\* C11 (amended): store, storeBatch, search, clear, count and getStats, called
\* while this.initialized is false (initialize never called, still running or
\* failed), reject with the not-initialized error and never call
\* pool.connect(); healthCheck and close do not test the flag and never
\* reject with that error.
C11_GuardedMethodsNeedInit ==
    \A c \in Ops :
        /\ (Made(c) /\ ~mInitAtCall[c]
                /\ mop[c] \in {"store", "storeBatch", "search", "clear", "count",
                               "getStats"})
            => (/\ mpc[c] = "rejected"
                /\ merr[c] = "notInitialized"
                /\ ~mconn[c])
        /\ (Made(c) /\ mop[c] \in {"healthCheck", "close"})
            => merr[c] # "notInitialized"
        /\ (mop[c] = "healthCheck" /\ Made(c)) => (mconn[c] /\ mpc[c] # "rejected")

C11_Witness ==
    \E c, d, e \in Ops :
        /\ mop[c] = "initialize" /\ mpc[c] = "verifyPgVector.query"
        /\ mop[d] = "search" /\ mpc[d] = "rejected" /\ merr[d] = "notInitialized"
        /\ mop[e] = "healthCheck" /\ mpc[e] = "resolved" /\ ~mInitAtCall[e]

\* C12 (as claimed): a store, storeBatch, search, clear or count call made
\* after close() has resolved rejects with the not-initialized error.
C12_CloseUninitializes ==
    \A c \in Ops :
        (Made(c) /\ mAfterClose[c]
            /\ mop[c] \in {"store", "storeBatch", "search", "clear", "count"})
            => (mpc[c] = "rejected" /\ merr[c] = "notInitialized")

\* C13: an initialize() call made once this.initialized is true returns
\* without calling pool.connect() (so with no query); this.initialized, once
\* true, stays true; it becomes true only in the step in which the last
\* verification of an initialize() call succeeds, so the step in which an
\* initialize() call fails leaves it as it was.
C13_InitializeIdempotent ==
    /\ [](\A c \in Ops :
            (Made(c) /\ mop[c] = "initialize" /\ mInitAtCall[c])
                => (mpc[c] = "resolved" /\ merr[c] = "none" /\ ~mconn[c]))
    /\ [][/\ initialized => initialized'
          /\ (~initialized /\ initialized')
                => (\E c \in Ops : /\ mop[c] = "initialize"
                                   /\ mpc[c] = "verifySchema.query"
                                   /\ mpc'[c] = "resolved")
          /\ \A c \in Ops :
                (mop[c] = "initialize" /\ mpc[c] # "rejected" /\ mpc'[c] = "rejected")
                    => (/\ merr'[c] = "initFailed"
                        /\ initialized' = initialized)]_vars

C13_Witness ==
    \E c, d, e \in Ops :
        /\ mop[c] = "initialize" /\ mpc[c] = "rejected"
        /\ mop[d] = "initialize" /\ mpc[d] = "resolved" /\ mconn[d]
        /\ mop[e] = "initialize" /\ mpc[e] = "resolved" /\ ~mconn[e]

\* C14: create with type 'postgresql' returns the PgVectorStore exactly when
\* its initialize() resolved and an InMemoryVectorStore, whose methods work
\* with no initialization, when initialize() rejected; create never rejects;
\* createStrict rejects with the initialization error.
C14_FactoryFallback ==
    /\ fkind = "create" => fpc # "rejected"
    /\ (fpc = "resolved" /\ ftype = "postgresql")
        => /\ fresult = "postgresql" <=> (mpc[1] = "resolved" /\ initialized)
           /\ fresult = "memory" <=> (mpc[1] = "rejected" /\ fkind = "create")
    /\ (fkind = "createStrict" /\ ftype = "postgresql" /\ mpc[1] = "rejected")
        => (fpc = "initialize" \/ (fpc = "rejected" /\ fresult = "initFailed"))
    /\ fresult = "memory"
        => \A c \in Ops : (c > 1 /\ mpc[c] # "idle")
                             => (mpc[c] = "resolved" /\ merr[c] = "none")

C14_Witness ==
    /\ fkind = "create" /\ ftype = "postgresql"
    /\ fpc = "resolved" /\ fresult = "memory" /\ ~initialized
    /\ \E c \in Ops : c > 1 /\ mop[c] = "count" /\ mpc[c] = "resolved"

\* The entries a store holds under the key of e
MemEntriesOf(m, e) == {i \in 1..Len(m) : KeyOf(m[i]) = KeyOf(e)}
PgEntriesOf(rows, e) == {r \in rows : KeyOf(r) = KeyOf(e)}

\* C15: in either variant, a store of an embedding whose (entityId, chunkId)
\* the variant already holds with another content succeeds and leaves exactly
\* one entry for that key, with the content and the vector of this store, and
\* the count it had before.
C15_UpsertIdempotent ==
    [][\A e \in EmbeddingVector :
          Store(e) =>
              /\ (\E i \in MemEntriesOf(memVectors, e) : memVectors[i].content # e.content)
                     => (/\ lastCall'.memOk
                         /\ Cardinality(MemEntriesOf(memVectors', e)) = 1
                         /\ \A i \in MemEntriesOf(memVectors', e) :
                                /\ memVectors'[i].content = e.content
                                /\ memVectors'[i].vector = e.vector
                         /\ Len(memVectors') = Len(memVectors))
              /\ (\E r \in PgEntriesOf(embeddings, e) : r.content # e.content)
                     => (/\ lastCall'.pgOk
                         /\ Cardinality(PgEntriesOf(embeddings', e)) = 1
                         /\ \A r \in PgEntriesOf(embeddings', e) :
                                /\ r.content = e.content
                                /\ r.vector = e.vector
                         /\ Cardinality(embeddings') = Cardinality(embeddings))]_vars

\* The same, of the PostgreSQL variant alone
C15_PgUpsertIdempotent ==
    [][\A e \in EmbeddingVector :
          Store(e) =>
              ((\E r \in PgEntriesOf(embeddings, e) : r.content # e.content)
                     => (/\ lastCall'.pgOk
                         /\ Cardinality(PgEntriesOf(embeddings', e)) = 1
                         /\ \A r \in PgEntriesOf(embeddings', e) :
                                /\ r.content = e.content
                                /\ r.vector = e.vector
                         /\ Cardinality(embeddings') = Cardinality(embeddings)))]_vars

\* What a search had to choose from in each variant: the stored entries in
\* scope, with their similarity to the query
MemCandidates ==
    {[chunk |-> ChunkOf(memVectors[i]),
      similarity |-> cosineSimilarity(lastCall.queryVector, memVectors[i].vector)]
     : i \in {j \in 1..Len(memVectors) : InScope(memVectors[j], lastCall.scope)}}

PgCandidates ==
    {[chunk |-> ChunkOf(r), similarity |-> PgSimilarity(lastCall.queryVector, r.vector)]
     : r \in {x \in embeddings : InScope(x, lastCall.scope)}}

Returned(rs) == {rs[i] : i \in 1..Len(rs)}

\* ordered by non-increasing similarity, at most topK results
Ranked(rs) == NonIncreasing(rs) /\ Len(rs) <= lastCall.topK

\* nothing left out is more similar than the last result
NoBetterOmitted(rs, candidates) ==
    rs # <<>> =>
        \A x \in candidates \ Returned(rs) : x.similarity <= rs[Len(rs)].similarity

Scoped == lastCall.op = "search" /\ lastCall.scope # {}

ChunksOf(rs) == {rs[i].chunk : i \in 1..Len(rs)}

\* The entries each variant holds for the entity a search was scoped to
MemOfScope == {i \in 1..Len(memVectors) : memVectors[i].entityId = Get(lastCall.scope)}
PgOfScope == {r \in embeddings : r.entityId = Get(lastCall.scope)}

OnlyScope(rs) == \A c \in ChunksOf(rs) : c.entityId = Get(lastCall.scope)

C18_Interchangeable ==
    lastCall.op # "none" =>
        /\ lastCall.memOk = lastCall.pgOk
        /\ {ChunkOf(memVectors[i]) : i \in 1..Len(memVectors)}
               = {ChunkOf(r) : r \in embeddings}
        /\ MemCount = PgCount

\* C19: when generateEmbeddings resolves it resolves with exactly one vector
\* per input text, so no chunk reaches the store without a vector.
C19_OneVectorPerInput ==
    /\ gresult.kind = "resolved" => Len(gresult.embeddings) = Len(ginputs)
    /\ \A i \in 1..Len(gstored) : gstored[i].vector # {}

Leading(words, k) == SubSeq(words, 1, Min(k, Len(words)))
Trailing(words, k) ==
    SubSeq(words, IF Len(words) > k THEN Len(words) - k + 1 ELSE 1, Len(words))

\* C20: for all consecutive chunks i and i+1 of one document, the last O
\* words of chunk i are the first O words of chunk i+1.
C20_OverlapInvariant ==
    \A i \in 1..(Len(docChunks) - 1) :
        /\ Len(docChunks[i + 1].content) >= chunkConfig.chunkOverlap
        /\ Trailing(docChunks[i].content, chunkConfig.chunkOverlap)
               = Leading(docChunks[i + 1].content, chunkConfig.chunkOverlap)

\* The same, of the consecutive chunks whose first has chunkSize words
C20_OverlapAfterFullChunk ==
    \A i \in 1..(Len(docChunks) - 1) :
        Len(docChunks[i].content) = chunkConfig.chunkSize
            => (/\ Len(docChunks[i + 1].content) >= chunkConfig.chunkOverlap
                /\ Trailing(docChunks[i].content, chunkConfig.chunkOverlap)
                       = Leading(docChunks[i + 1].content, chunkConfig.chunkOverlap))

\* C21: every configuration the ConfigService holds has a positive stride
\* chunkSize - chunkOverlap, and every chunkDocument loop run under it
\* comes to its end.
C21_StridePositiveAndTerminates ==
    /\ [](lpc # "new" => Stride(cachedConfig) > 0)
    /\ [](lpc = "loop" => <>(lpc = "returned"))

C23_AnswerQuestionForwards ==
    /\ [](apc # "idle" =>
            /\ Len(answerLog) = 1
            /\ answerLog[1].query = aopts.query
            /\ answerLog[1].entityId = aopts.entityId
            /\ answerLog[1].model = aopts.model
            /\ answerLog[1].context = aopts.context
            /\ answerLog[1].topK = (IF aopts.topK = {} THEN {defaultTopK}
                                    ELSE aopts.topK)
            /\ areq = answerLog[1])
    /\ [][(apc' # apc) => UNCHANGED <<indexingInProgress, lastIndexTime>>]_vars

\* A question asked with topK 0 and one asked without topK have been answered.
C23_Witness ==
    /\ apc = "returned"
    /\ aopts.topK \in {{}, {0}}
    /\ aopts.entityId # {}
    /\ Len(answerLog) = 1


\* C24 (as claimed): in every indexAll run the store is emptied only by the
\* run's clear(), which completes before the run fetches the entity list and
\* before any of its tasks exists, and a run over zero entities that
\* resolves leaves the store empty.
C24_ClearFirstThenEmpty ==
    /\ [](\A c \in Callers : pc[c] \in {"clear", "fetch"} => items[c] = <<>>)
    /\ [][/\ ~(vectors \subseteq vectors')
                => \E c \in Callers : /\ pc[c] \in {"idle", "clear"}
                                      /\ pc'[c] = "fetch"
                                      /\ vectors' = {}
          /\ \A c \in Callers :
                (/\ pc'[c] = "done"
                 /\ \/ pc[c] = "fetch"
                    \/ pc[c] = "count" /\ fetched[c] = 0)
                    => vectors' = {}]_vars


\* C25: PgVectorStore.clear(entityId) deletes exactly the rows of that
\* entity, so every other row stays and the count of every other entity is
\* what it was; clear() deletes every row, so count() is 0.
C25_ClearScopedOrAll ==
    lastCall.op = "pgClear" =>
        IF lastCall.scope # {}
        THEN /\ embeddings
                  = {r \in lastCall.pgBefore : r.entityId # Get(lastCall.scope)}
             /\ PgCountOf(embeddings, lastCall.scope) = 0
             /\ \A s \in ScopeIds \ lastCall.scope :
                    PgCountOf(embeddings, Some(s))
                        = PgCountOf(lastCall.pgBefore, Some(s))
        ELSE /\ embeddings = {}
             /\ PgCountOf(embeddings, {}) = 0

\* A scoped clear removed an entity's row and left another entity's row.
C25_Witness ==
    /\ lastCall.op = "pgClear"
    /\ lastCall.scope # {}
    /\ \E r \in lastCall.pgBefore : r.entityId = Get(lastCall.scope)
    /\ embeddings # {}


\* C26: the chunks of a non-empty text of n words are, for k = 0, 1, ...,
\* m - 1 with m the number of k for which k(W - O) < n, the words
\* [k(W - O), k(W - O) + W) of the text, with chunkIndex k, id
\* entityId-source-k and totalChunks m; the ids are pairwise distinct; an
\* empty text has no chunks.
C26_ChunkPositionsAndIds ==
    LET W == chunkConfig.chunkSize
        O == chunkConfig.chunkOverlap
        n == Len(document)
        m == Len(docChunks)
    IN  /\ n = 0 => m = 0
        /\ n > 0 => (m >= 1 /\ (m - 1) * (W - O) < n /\ m * (W - O) >= n)
        /\ \A i \in 1..m :
               /\ docChunks[i].content
                      = [j \in 1..(Min((i - 1) * (W - O) + W, n) - (i - 1) * (W - O))
                            |-> document[(i - 1) * (W - O) + j]]
               /\ docChunks[i].chunkIndex = i - 1
               /\ docChunks[i].id = <<docKey.entityId, "-", docKey.source, "-", i - 1>>
               /\ docChunks[i].totalChunks = m
        /\ \A i, j \in 1..m : docChunks[i].id = docChunks[j].id => i = j

\* A text of four words in four overlapping chunks, the last ones short.
C26_Witness ==
    /\ Len(document) = 4
    /\ chunkConfig = [chunkSize |-> 3, chunkOverlap |-> 2]
    /\ Len(docChunks) = 4
    /\ docKey.source = "techdocs"


\* C27 (as claimed): after indexEntity has stored the entity, the store's
\* entries for it are exactly the chunks of its current texts, and the
\* stored chunks of one origin all carry the same totalChunks.
C27_StoreHoldsCurrentChunks ==
    estored =>
        /\ estore = {echunks[i] : i \in 1..Len(echunks)}
        /\ \A r, t \in estore : r.source = t.source => r.totalChunks = t.totalChunks


\* C28 (as claimed): when an indexAll run has failed after its clear()
\* completed, the store holds the vectors it held when the run started.
C28_FailedRunKeepsVectors ==
    \A c \in Callers :
        (pc[c] = "failed" /\ runLog[c].cleared) => runLog[c].held \subseteq vectors

\* C28 (amended): the run's clear() empties the store, and the failure of the
\* run after it puts nothing back: the store is left as the failing step
\* found it.
C28_FailedRunRestoresNothing ==
    [][\A c \in Callers :
          /\ (~runLog[c].cleared /\ runLog'[c].cleared) => vectors' = {}
          /\ (pc[c] \in {"fetch", "batch", "count"} /\ pc'[c] = "failed")
                => vectors' = vectors]_vars

\* A run over a populated store failed after its clear and left it empty.
C28_Witness ==
    \E c \in Callers :
        /\ pc[c] = "failed"
        /\ runLog[c].cleared
        /\ runLog[c].held # {}
        /\ vectors = {}


InPool(o) == qop[o].pc \in {"connect", "query", "rollback"}

\* C29: an operation never releases more clients than it acquired, has
\* released every client it acquired once it has settled, and no client is
\* checked out while no operation is in flight.
C29_ClientsReleasedOnce ==
    /\ \A o \in PoolOps :
          /\ qop[o].released <= qop[o].acquired
          /\ qop[o].pc \in {"resolved", "rejected"}
                => (qop[o].released = qop[o].acquired /\ qop[o].client = 0)
          /\ qop[o].pc \in {"query", "rollback"}
                => (qop[o].client \in checkedOut
                    /\ qop[o].acquired = qop[o].released + 1)
    /\ (\A o \in PoolOps : ~InPool(o)) => checkedOut = {}

\* A storeBatch that failed and an initialize that passed its three checks
\* have both settled.
C29_Witness ==
    \E o, p \in PoolOps :
        /\ qop[o].method = "storeBatch" /\ qop[o].pc = "rejected" /\ qop[o].acquired = 1
        /\ qop[p].method = "initialize" /\ qop[p].pc = "resolved" /\ qop[p].acquired = 3


\* C30 (as claimed): every query in flight is on a client that the operation
\* which sent it still holds, so no other operation holds a client with a
\* pending query of another operation.
C30_NoQueryOnReleasedClient ==
    \A q \in inFlight :
        /\ qop[q[2]].client = q[1]
        /\ \A p \in PoolOps \ {q[2]} : qop[p].client # q[1]

====
